---------------------------- MODULE Spec2Model ----------------------------
(*
  A model of gevertex/scroller, src/game.py: the frame loop of main(), the
  obstacle generator, the landing test, the debris particles and the signed
  high-score file.

  Numbers.  The program computes in Python floats; the model computes the
  same quantities exactly, in fixed point:
    - vertical player quantities (player_y, player_velocity_y) in units of
      1/YS pixel, YS = 10 * 2^MaxCuts: GRAVITY = 0.8 and JUMP_STRENGTH = -15
      are whole tenths, and each jump cut halves the velocity;
    - horizontal obstacle quantities (x, width, scroll speed) in units of
      1/XS pixel, XS = 20: SPEED_INCREMENT = 0.05 = 1/20;
    - debris quantities in units of 1/DS pixel, DS = 100, the products with
      DEBRIS_FRICTION and DEBRIS_BOUNCE_DAMPING truncated to that unit.
  The float rounding of the program is not modelled.

  Randomness.  random.randint / random.uniform are draws of one generator;
  the model's generator is a position rng in the cyclic table Pattern, each
  draw reading one entry and advancing the position by one.
*)
EXTENDS Integers, Sequences, FiniteSets, TLC

VARIABLES
    state,      \* the GameState of main() (game.py 706, 729)
    file,       \* the content of HIGH_SCORE_PATH
    rng,        \* the position of the random generator
    space_down, \* the physical state of the space key (the event source)
    ticks,      \* frames run since the last reset_game()
    dead_ticks, \* of these, the frames run with game_over set
    cuts,       \* jump cuts applied since the last reset_game()
    held,       \* frames run since the space key last went down
    resets,     \* reset_game() calls after the first
    spawned,    \* obstacles generated since the last reset_game()
    ev          \* what the last step did (observation only)

vars == <<state, file, rng, space_down, ticks, dead_ticks, cuts, held, resets,
          spawned, ev>>

-----------------------------------------------------------------------------
(* Bounds of the model *)

MaxTicks == 224          \* frames of the first run
MaxReplayTicks == 3      \* frames of a run that follows a reset
MaxResets == 1           \* resets of a session
MaxDeadTicks == 2        \* frames run with game_over set
MaxCuts == 1             \* jump cuts of a run
MaxCutHold == 0          \* frames a key is held before a release that cuts
QuietFrames == 170       \* frames of a run before its first jump key event
NSeeds == 2              \* generator positions a session starts from
MaxStoreScore == 1        \* largest of the small scores the store is called with
MaxEdits == 1            \* edits of the score file between two saves
MaxChain == 3            \* obstacles of a chain built by the generator alone
NGenSpeeds == 3          \* scroll speeds the generator alone is called with
GenScoreStep == 80       \* the scores between two of these speeds
FnSpeedStep == 5         \* step, in 1/XS pixel per frame, of the speeds get_min_gap is called with
MaxFnSpeed == 13         \* the largest of these speeds, in pixels per frame
MaxFnScore == 165        \* largest score of a run of successive get_scroll_speed calls
HitEdge == 1             \* positions tried on each side of an edge of the landing test
MaxJumpTicks == 40       \* frames of a run of one jump from the ground
MaxIdleTicks == 1        \* frames of such a run before the jump
MaxScrollTicks == 260    \* frames of a run in which the player stays on the ground
MaxDebrisSteps == 40     \* calls of update_debris on one burst of debris
MinFallTop == 170         \* highest platform a fall starts from, as its y
MaxFallTop == 180         \* lowest platform a fall starts from, as its y
MaxFallTicks == 70        \* frames of a run that falls from a high platform
MinRunScore == 58         \* lower score a run is taken up at
MaxRunScore == 100        \* higher score a run is taken up at
MaxRunTicks == 100        \* frames of a run taken up at such a score

-----------------------------------------------------------------------------
(* Program constants, game.py 12-71 *)

SCREEN_WIDTH == 800
SCREEN_HEIGHT == 400
PLAYER_WIDTH == 40
PLAYER_HEIGHT == 40
PLAYER_X == 100
GRAVITY_TENTHS == 8
JUMP_STRENGTH == -15
GROUND_Y == SCREEN_HEIGHT - 50
BASE_SCROLL_SPEED == 4
MAX_SCROLL_SPEED == 12
SPEED_INCREMENT_INV == 20
MIN_OBSTACLE_WIDTH == 60
MAX_OBSTACLE_WIDTH == 150
OBSTACLE_THICKNESS == 20
MIN_GAP == 60
MAX_GAP == 130
MIN_JUMP_FRAMES == 18
GAP_BUFFER == 20
MAX_JUMP_HEIGHT == 120
MAX_HEIGHT_DIFF == 100
MIN_PLATFORM_Y == 50
MAX_PLATFORM_Y == GROUND_Y - 20
INITIAL_OBSTACLE_COUNT == 4
INITIAL_OBSTACLE_OFFSET_MIN == 100
INITIAL_OBSTACLE_OFFSET_MAX == 300
LANDING_TOLERANCE == 5
DEBRIS_COUNT == 16
DEBRIS_SIZE_MIN == 6
DEBRIS_SIZE_MAX == 12
DEBRIS_SPEED_MIN == 3
DEBRIS_SPEED_MAX == 10
DEBRIS_BOUNCE_DAMPING_PCT == 60
DEBRIS_FRICTION_PCT == 98
DEBRIS_GRAVITY_PCT == 50
JUMP_CUT_DIVISOR == 2
DEBRIS_UPWARD_BIAS == 5

(* Fixed-point units *)
RECURSIVE Pow2(_)
Pow2(n) == IF n = 0 THEN 1 ELSE 2 * Pow2(n - 1)
YS == 10 * Pow2(MaxCuts)
XS == SPEED_INCREMENT_INV
DS == 100
GRAVITY == (GRAVITY_TENTHS * YS) \div 10

Max(a, b) == IF a >= b THEN a ELSE b
Min(a, b) == IF a <= b THEN a ELSE b
Abs(a) == IF a < 0 THEN -a ELSE a

-----------------------------------------------------------------------------
(* The score store, game.py 191-243 *)

(* A text is a Python str: either the literal characters m, or (h) the
   hexdigest of the HMAC-SHA256 of the message m under HIGH_SCORE_SECRET.
   HMAC is modelled as injective: two digests are equal iff their messages
   are, and no literal equals a digest. *)
Lit(chars) == [h |-> FALSE, m |-> chars]
EmptyText == Lit(<< >>)

(* A JSON value as json.load returns it. t: missing (the key is not in the
   object), null, int (n), float (n.0), str (s), array. *)
JV(t, n, s) == [t |-> t, n |-> n, s |-> s]
JMissing == JV("missing", 0, EmptyText)
JNull == JV("null", 0, EmptyText)
JInt(n) == JV("int", n, EmptyText)
JFloat(n) == JV("float", n, EmptyText)
JStr(s) == JV("str", 0, s)
JArray == JV("array", 0, EmptyText)

Digit(d) ==
    CASE d = 0 -> "0" [] d = 1 -> "1" [] d = 2 -> "2" [] d = 3 -> "3"
      [] d = 4 -> "4" [] d = 5 -> "5" [] d = 6 -> "6" [] d = 7 -> "7"
      [] d = 8 -> "8" [] OTHER -> "9"

RECURSIVE Digits(_)
Digits(n) ==
    IF n < 10 THEN <<Digit(n)>> ELSE Append(Digits(n \div 10), Digit(n % 10))

(* Python's str(int) *)
StrInt(n) == IF n < 0 THEN <<"-">> \o Digits(-n) ELSE Digits(n)

(* Python's str(v) of a value read from JSON, as a text *)
str(v) ==
    CASE v.t = "int" -> Lit(StrInt(v.n))
      [] v.t = "float" -> Lit(StrInt(v.n) \o <<".", "0">>)
      [] v.t = "str" -> v.s
      [] v.t = "null" -> Lit(<<"N", "o", "n", "e">>)
      [] OTHER -> Lit(<<"[", "]">>)

(* hmac.new(HIGH_SCORE_SECRET, message, sha256).hexdigest() *)
HmacHexDigest(message) ==
    [h |-> TRUE, m |-> IF message.h THEN <<"hmac">> \o message.m ELSE message.m]

_compute_score_signature(score) == HmacHexDigest(str(score))

(* The file at HIGH_SCORE_PATH. kind: absent, unreadable (it exists and
   open() raises OSError), undecodable (its bytes are not UTF-8), text (it
   does not parse as JSON), json. top is the type of the JSON document;
   high_score and signature are the two keys of an object. *)
File(kind, top, hs, sig) ==
    [kind |-> kind, top |-> top, high_score |-> hs, signature |-> sig]
AbsentFile == File("absent", "none", JMissing, JMissing)
UnreadableFile == File("unreadable", "none", JMissing, JMissing)
TextFile == File("text", "none", JMissing, JMissing)
UndecodableFile == File("undecodable", "none", JMissing, JMissing)
ObjectFile(hs, sig) == File("json", "object", hs, sig)
OtherJsonFile(top) == File("json", top, JMissing, JMissing)

(* {"high_score": 9999, "signature": "fake"} *)
ForgedFile == ObjectFile(JInt(9999), JStr(Lit(<<"f", "a", "k", "e">>)))

(* What a call returns: a value, or an exception that leaves the function *)
Returns(v) == [raised |-> FALSE, value |-> v]
Raises == [raised |-> TRUE, value |-> JMissing]

(* json.dump of the record save_high_score builds *)
SavedRecord(score) ==
    ObjectFile(JInt(score), JStr(_compute_score_signature(JInt(score))))

(* save_high_score(score) under one outcome of the file system: ok; the
   open for writing fails (the file is left as it was); the write fails
   after the open truncated the file. *)
IoOutcomes == {"ok", "open_fails", "write_fails"}

(* save_high_score without the signature field *)
save_high_scoreUnsigned(f, score, io) ==
    CASE io = "ok" -> [file |-> ObjectFile(JInt(score), JMissing), ret |-> TRUE]
      [] io = "open_fails" -> [file |-> f, ret |-> FALSE]
      [] OTHER -> [file |-> TextFile, ret |-> FALSE]

save_high_score(f, score, io) ==
    CASE io = "ok" -> [file |-> SavedRecord(score), ret |-> TRUE]
      [] io = "open_fails" -> [file |-> f, ret |-> FALSE]
      [] OTHER -> [file |-> TextFile, ret |-> FALSE]

(* hmac.compare_digest(a, b) on two Python values; b is always a str. A
   first argument that is not a str raises TypeError. *)
compare_digest_raises(a) == a.t # "str"
compare_digest(a, b) == a.s = b

(* load_high_score without the comparison of the signatures *)
load_high_scoreUnverified(f) ==
    IF f.kind \in {"absent", "unreadable", "text"} THEN Returns(JInt(0))
    ELSE IF f.kind = "undecodable" \/ f.top # "object" THEN Raises
    ELSE IF f.high_score.t = "missing" THEN Returns(JInt(0))
    ELSE Returns(f.high_score)

load_high_score(f) ==
    IF f.kind = "absent" THEN Returns(JInt(0))
    ELSE IF f.kind \in {"unreadable", "text"} THEN Returns(JInt(0))
    ELSE IF f.kind = "undecodable" THEN Raises
    ELSE IF f.top # "object" THEN Raises
    ELSE LET score == IF f.high_score.t = "missing" THEN JInt(0)
                      ELSE f.high_score
             signature == IF f.signature.t = "missing" THEN JStr(EmptyText)
                          ELSE f.signature
             expected_signature == _compute_score_signature(score)
         IN  IF compare_digest_raises(signature) THEN Returns(JInt(0))
             ELSE IF compare_digest(signature, expected_signature)
                  THEN Returns(score)
                  ELSE Returns(JInt(0))

-----------------------------------------------------------------------------
(* The random generator *)

(* One entry per draw, in quarters of the drawn range: 0 is the low end, 4
   the high end. *)
Pattern == <<0, 0, 4, 2, 1>>
Draw(r) == Pattern[(r % Len(Pattern)) + 1]
Advance(r, n) == (r + n) % Len(Pattern)

(* random.randint(lo, hi) at generator position r *)
randint(lo, hi, r) == lo + (Draw(r) * (hi - lo)) \div 4

(* int(): truncation toward zero of a / b, b > 0 *)
Trunc(a, b) == IF a >= 0 THEN a \div b ELSE -((-a) \div b)

-----------------------------------------------------------------------------
(* Speed and gap, game.py 639-668. Speeds are in 1/XS pixel per frame. *)

(* get_scroll_speed without the cap *)
get_scroll_speedUncapped(score) ==
    BASE_SCROLL_SPEED * XS + score * (XS \div SPEED_INCREMENT_INV)

get_scroll_speed(score) ==
    Min(BASE_SCROLL_SPEED * XS + score * (XS \div SPEED_INCREMENT_INV),
        MAX_SCROLL_SPEED * XS)

(* get_min_gap without the lower limit MIN_GAP *)
get_min_gapUnclamped(speed) ==
    Trunc(speed * MIN_JUMP_FRAMES - (MIN_OBSTACLE_WIDTH - GAP_BUFFER) * XS, XS)

(* get_min_gap that rounds the required gap up *)
get_min_gapCeil(speed) ==
    LET required_gap == speed * MIN_JUMP_FRAMES
                          - (MIN_OBSTACLE_WIDTH - GAP_BUFFER) * XS
    IN  Max(MIN_GAP,
            IF required_gap % XS = 0 THEN required_gap \div XS
            ELSE required_gap \div XS + 1)

(* get_min_gap that does not scale with the speed *)
get_min_gapFixed(speed) == MIN_GAP

(* get_min_gap with a buffer of one pixel instead of GAP_BUFFER *)
get_min_gapTightBuffer(speed) ==
    Max(MIN_GAP,
        Trunc(speed * MIN_JUMP_FRAMES - (MIN_OBSTACLE_WIDTH - 1) * XS, XS))

(* required_gap = speed * MIN_JUMP_FRAMES - MIN_OBSTACLE_WIDTH + GAP_BUFFER,
   in pixels, then int() *)
get_min_gap(speed) ==
    Max(MIN_GAP,
        Trunc(speed * MIN_JUMP_FRAMES
                - (MIN_OBSTACLE_WIDTH - GAP_BUFFER) * XS, XS))

-----------------------------------------------------------------------------
(* Obstacles, game.py 140-147 and 287-333. x is in 1/XS pixel; y, width and
   height are whole pixels. id numbers the obstacles of a run in the order
   they are generated: it stands for the identity of the Python object. *)

Obstacle(x, y, width, height, scored) ==
    [x |-> x, y |-> y, width |-> width, height |-> height,
     scored |-> scored, id |-> 0]

(* generate_obstacle with MAX_GAP as the upper end of the gap at any speed *)
generate_obstacleFixedMaxGap(last_obstacle, from_ground, speed, r) ==
    LET width == randint(MIN_OBSTACLE_WIDTH, MAX_OBSTACLE_WIDTH, r)
        min_gap == get_min_gap(speed)
    IN  IF last_obstacle # << >> /\ ~from_ground
        THEN LET last == last_obstacle[1]
                 lo == Max(MIN_PLATFORM_Y, last.y - MAX_JUMP_HEIGHT)
                 hi == Min(MAX_PLATFORM_Y, last.y + MAX_HEIGHT_DIFF)
             IN  Obstacle(last.x + last.width * XS
                            + randint(min_gap, MAX_GAP, r + 1) * XS,
                          randint(Min(lo, hi), Max(lo, hi), r + 2),
                          width, OBSTACLE_THICKNESS, FALSE)
        ELSE Obstacle(
                 (SCREEN_WIDTH + randint(INITIAL_OBSTACLE_OFFSET_MIN,
                                         INITIAL_OBSTACLE_OFFSET_MAX, r + 1)) * XS,
                 IF from_ground
                 THEN randint(GROUND_Y - MAX_JUMP_HEIGHT, MAX_PLATFORM_Y, r + 2)
                 ELSE randint(MIN_PLATFORM_Y, MAX_PLATFORM_Y, r + 2),
                 width, OBSTACLE_THICKNESS, FALSE)

(* generate_obstacle with the height of a chained obstacle drawn from the
   whole range of platform heights *)
generate_obstacleAnyHeight(last_obstacle, from_ground, speed, r) ==
    LET width == randint(MIN_OBSTACLE_WIDTH, MAX_OBSTACLE_WIDTH, r)
        min_gap == get_min_gap(speed)
        max_gap == Max(min_gap, MAX_GAP)
    IN  IF last_obstacle # << >> /\ ~from_ground
        THEN LET last == last_obstacle[1]
             IN  Obstacle(last.x + last.width * XS
                            + randint(min_gap, max_gap, r + 1) * XS,
                          randint(MIN_PLATFORM_Y, MAX_PLATFORM_Y, r + 2),
                          width, OBSTACLE_THICKNESS, FALSE)
        ELSE Obstacle(
                 (SCREEN_WIDTH + randint(INITIAL_OBSTACLE_OFFSET_MIN,
                                         INITIAL_OBSTACLE_OFFSET_MAX, r + 1)) * XS,
                 IF from_ground
                 THEN randint(GROUND_Y - MAX_JUMP_HEIGHT, MAX_PLATFORM_Y, r + 2)
                 ELSE randint(MIN_PLATFORM_Y, MAX_PLATFORM_Y, r + 2),
                 width, OBSTACLE_THICKNESS, FALSE)

(* generate_obstacle that chains an obstacle right onto the end of the last
   one, with no gap *)
generate_obstacleNoGap(last_obstacle, from_ground, speed, r) ==
    LET width == randint(MIN_OBSTACLE_WIDTH, MAX_OBSTACLE_WIDTH, r)
    IN  IF last_obstacle # << >> /\ ~from_ground
        THEN LET last == last_obstacle[1]
                 lo == Max(MIN_PLATFORM_Y, last.y - MAX_JUMP_HEIGHT)
                 hi == Min(MAX_PLATFORM_Y, last.y + MAX_HEIGHT_DIFF)
             IN  Obstacle(last.x + last.width * XS,
                          randint(Min(lo, hi), Max(lo, hi), r + 2),
                          width, OBSTACLE_THICKNESS, FALSE)
        ELSE Obstacle(
                 (SCREEN_WIDTH + randint(INITIAL_OBSTACLE_OFFSET_MIN,
                                         INITIAL_OBSTACLE_OFFSET_MAX, r + 1)) * XS,
                 IF from_ground
                 THEN randint(GROUND_Y - MAX_JUMP_HEIGHT, MAX_PLATFORM_Y, r + 2)
                 ELSE randint(MIN_PLATFORM_Y, MAX_PLATFORM_Y, r + 2),
                 width, OBSTACLE_THICKNESS, FALSE)

(* last_obstacle is << >> (None) or <<obstacle>>. The draws are taken in the
   order of the code: width at r, the gap or offset at r + 1, y at r + 2. *)
generate_obstacle(last_obstacle, from_ground, speed, r) ==
    LET width == randint(MIN_OBSTACLE_WIDTH, MAX_OBSTACLE_WIDTH, r)
        min_gap == get_min_gap(speed)
        max_gap == Max(min_gap, MAX_GAP)
    IN  IF last_obstacle # << >> /\ ~from_ground
        THEN LET last == last_obstacle[1]
                 x == last.x + last.width * XS
                        + randint(min_gap, max_gap, r + 1) * XS
                 last_top == last.y
                 lo == Max(MIN_PLATFORM_Y, last_top - MAX_JUMP_HEIGHT)
                 hi == Min(MAX_PLATFORM_Y, last_top + MAX_HEIGHT_DIFF)
                 min_y == IF lo > hi THEN hi ELSE lo
                 max_y == IF lo > hi THEN lo ELSE hi
                 y == randint(min_y, max_y, r + 2)
             IN  Obstacle(x, y, width, OBSTACLE_THICKNESS, FALSE)
        ELSE IF from_ground
        THEN Obstacle(
                 (SCREEN_WIDTH + randint(INITIAL_OBSTACLE_OFFSET_MIN,
                                         INITIAL_OBSTACLE_OFFSET_MAX, r + 1)) * XS,
                 randint(GROUND_Y - MAX_JUMP_HEIGHT, MAX_PLATFORM_Y, r + 2),
                 width, OBSTACLE_THICKNESS, FALSE)
        ELSE Obstacle(
                 (SCREEN_WIDTH + randint(INITIAL_OBSTACLE_OFFSET_MIN,
                                         INITIAL_OBSTACLE_OFFSET_MAX, r + 1)) * XS,
                 randint(MIN_PLATFORM_Y, MAX_PLATFORM_Y, r + 2),
                 width, OBSTACLE_THICKNESS, FALSE)

(* The generator draws three times per obstacle *)
ObstacleDraws == 3

WithId(o, n) == [o EXCEPT !.id = n]

-----------------------------------------------------------------------------
(* Debris, game.py 150-158 and 523-585. Positions and velocities are in
   1/DS pixel; size is whole pixels. *)

Debris(x, y, vel_x, vel_y, size, bounces) ==
    [x |-> x, y |-> y, vel_x |-> vel_x, vel_y |-> vel_y,
     size |-> size, bounces |-> bounces]

(* random.uniform(0, 2 * pi) lands on a quarter turn: cos and sin are exact *)
Cos(q) == CASE q % 4 = 0 -> 1 [] q % 4 = 2 -> -1 [] OTHER -> 0
Sin(q) == CASE q % 4 = 1 -> 1 [] q % 4 = 3 -> -1 [] OTHER -> 0

(* The generator draws five times per particle *)
DebrisDraws == 5

(* One particle of generate_debris: angle at r, speed at r + 1, start_x at
   r + 2, start_y at r + 3, size at r + 4. player_x, player_y in pixels. *)
DebrisParticle(player_x, player_y, r) ==
    LET angle == Draw(r)
        speed == DEBRIS_SPEED_MIN * DS
                   + (Draw(r + 1) * (DEBRIS_SPEED_MAX - DEBRIS_SPEED_MIN) * DS) \div 4
        vel_x == Cos(angle) * speed
        vel_y == Sin(angle) * speed - DEBRIS_UPWARD_BIAS * DS
        start_x == player_x + randint(0, PLAYER_WIDTH, r + 2)
        start_y == player_y + randint(0, PLAYER_HEIGHT, r + 3)
    IN  Debris(start_x * DS, start_y * DS, vel_x, vel_y,
               randint(DEBRIS_SIZE_MIN, DEBRIS_SIZE_MAX, r + 4), 0)

generate_debris(player_x, player_y, r) ==
    [i \in 1..DEBRIS_COUNT |->
        DebrisParticle(player_x, player_y, r + (i - 1) * DebrisDraws)]

(* A particle that sticks to the ground where it first touches it *)
UpdateParticleSticks(d) ==
    LET vy1 == d.vel_y + (DEBRIS_GRAVITY_PCT * DS) \div 100
        vx1 == Trunc(d.vel_x * DEBRIS_FRICTION_PCT, 100)
        x1 == d.x + vx1
        y1 == d.y + vy1
    IN  IF y1 + d.size * DS >= GROUND_Y * DS
        THEN Debris(x1, (GROUND_Y - d.size) * DS, vx1, 0, d.size,
                    d.bounces + 1)
        ELSE Debris(x1, y1, vx1, vy1, d.size, d.bounces)

(* One particle's step of update_debris *)
UpdateParticle(d) ==
    LET vy1 == d.vel_y + (DEBRIS_GRAVITY_PCT * DS) \div 100
        vx1 == Trunc(d.vel_x * DEBRIS_FRICTION_PCT, 100)
        x1 == d.x + vx1
        y1 == d.y + vy1
    IN  IF y1 + d.size * DS >= GROUND_Y * DS
        THEN LET vy2 == Trunc(-vy1 * DEBRIS_BOUNCE_DAMPING_PCT, 100)
             IN  Debris(x1, (GROUND_Y - d.size) * DS, vx1,
                        IF Abs(vy2) < 1 * DS THEN 0 ELSE vy2,
                        d.size, d.bounces + 1)
        ELSE Debris(x1, y1, vx1, vy1, d.size, d.bounces)

update_debris(debris_list) ==
    [i \in 1..Len(debris_list) |-> UpdateParticle(debris_list[i])]

-----------------------------------------------------------------------------
(* The landing test, game.py 602-636. player_y and prev_player_y are in
   1/YS pixel, player_x in pixels, the obstacle as stored. *)

(* check_obstacle_collision without the test of the previous position *)
check_obstacle_collisionNoSweep(player_x, player_y, prev_player_y, obstacle) ==
    LET player_bottom == player_y + PLAYER_HEIGHT * YS
    IN  /\ (player_x + PLAYER_WIDTH) * XS > obstacle.x
        /\ player_x * XS < obstacle.x + obstacle.width * XS
        /\ player_bottom >= obstacle.y * YS
        /\ player_bottom <= (obstacle.y + obstacle.height + LANDING_TOLERANCE) * YS

check_obstacle_collision(player_x, player_y, prev_player_y, obstacle) ==
    LET player_bottom == player_y + PLAYER_HEIGHT * YS
        prev_player_bottom == prev_player_y + PLAYER_HEIGHT * YS
        player_right == (player_x + PLAYER_WIDTH) * XS
        player_left == player_x * XS
        obs_top == obstacle.y * YS
        obs_bottom == (obstacle.y + obstacle.height) * YS
        obs_left == obstacle.x
        obs_right == obstacle.x + obstacle.width * XS
    IN  /\ player_right > obs_left
        /\ player_left < obs_right
        /\ \/ prev_player_bottom <= obs_top /\ player_bottom >= obs_top
           \/ /\ player_bottom >= obs_top
              /\ player_bottom <= obs_bottom + LANDING_TOLERANCE * YS

-----------------------------------------------------------------------------
(* GameState, game.py 161-175, and reset_game, game.py 671-697 *)

GameState(player_y, player_velocity_y, is_jumping, jump_held, has_jumped, game_over, score, high_score, obstacles) ==
    [player_y |-> player_y, player_velocity_y |-> player_velocity_y,
     is_jumping |-> is_jumping, jump_held |-> jump_held,
     has_jumped |-> has_jumped, game_over |-> game_over, score |-> score,
     high_score |-> high_score, high_score_beaten |-> FALSE,
     jump_buffered |-> FALSE, obstacles |-> obstacles, debris |-> << >>]

(* The chain reset_game builds: one from-ground obstacle, then n chained at
   the default speed BASE_SCROLL_SPEED *)
RECURSIVE InitialChain(_, _)
InitialChain(n, r) ==
    IF n = 0
    THEN <<WithId(generate_obstacle(<< >>, TRUE, BASE_SCROLL_SPEED * XS, r), 1)>>
    ELSE LET chain == InitialChain(n - 1, r)
             last_obs == chain[Len(chain)]
         IN  Append(chain,
                    WithId(generate_obstacle(<<last_obs>>, FALSE,
                                             BASE_SCROLL_SPEED * XS,
                                             r + n * ObstacleDraws),
                           n + 1))

(* reset_game that takes the score, too, from the file *)
reset_gameKeepsScore(r, f) ==
    GameState((GROUND_Y - PLAYER_HEIGHT) * YS, 0, FALSE, FALSE, FALSE, FALSE,
              load_high_score(f).value.n, load_high_score(f).value.n,
              InitialChain(INITIAL_OBSTACLE_COUNT, r))

(* reset_game that does not read the file *)
reset_gameNoLoad(r, f) ==
    GameState((GROUND_Y - PLAYER_HEIGHT) * YS, 0, FALSE, FALSE, FALSE, FALSE,
              0, 0, InitialChain(INITIAL_OBSTACLE_COUNT, r))

(* reset_game() with the generator at r and the score file f; the loaded
   high score is an int in every file the game model starts from *)
reset_game(r, f) ==
    GameState((GROUND_Y - PLAYER_HEIGHT) * YS, 0, FALSE, FALSE, FALSE, FALSE,
              0, load_high_score(f).value.n,
              InitialChain(INITIAL_OBSTACLE_COUNT, r))

ResetDraws == (INITIAL_OBSTACLE_COUNT + 1) * ObstacleDraws

-----------------------------------------------------------------------------
(* One frame of main()'s loop body after the events, game.py 743-816. A
   frame in progress is the state s with the loop's locals (prev_player_y,
   on_surface), the generator, the file, the obstacle counter, and what the
   frame did so far (clamped, landed: the id landed on or 0, fired, save). *)

StartFrame(s, r, f, n) ==
    [s |-> s, prev_player_y |-> s.player_y, on_surface |-> FALSE,
     rng |-> r, file |-> f, spawned |-> n,
     clamped |-> FALSE, landed |-> 0, fired |-> FALSE, save |-> "none"]

(* game.py 748-750 *)
ApplyGravity(c) ==
    LET v == c.s.player_velocity_y + GRAVITY
    IN  [c EXCEPT !.s.player_velocity_y = v, !.s.player_y = c.s.player_y + v]

(* A ground that is fatal from the start *)
GroundIsFatalAlways(s) == TRUE

(* game.py 761: the ground is fatal once the player has jumped *)
GroundIsFatal(s) == s.has_jumped

(* The high score kept in memory only when the save succeeded *)
CheckHighScoreIfSaved(c, io) ==
    IF c.s.score > c.s.high_score
    THEN LET w == save_high_score(c.file, c.s.score, io)
         IN  IF w.ret
             THEN [c EXCEPT !.s.high_score = c.s.score,
                            !.s.high_score_beaten = TRUE,
                            !.file = w.file,
                            !.save = "ok"]
             ELSE [c EXCEPT !.file = w.file, !.save = "failed"]
    ELSE c

(* game.py 767-771 *)
CheckHighScore(c, io) ==
    IF c.s.score > c.s.high_score
    THEN LET w == save_high_score(c.file, c.s.score, io)
         IN  [c EXCEPT !.s.high_score = c.s.score,
                       !.s.high_score_beaten = TRUE,
                       !.file = w.file,
                       !.save = IF w.ret THEN "ok" ELSE "failed"]
    ELSE c

(* game.py 752-771 *)
GroundCollision(c, io) ==
    IF c.s.player_y >= (GROUND_Y - PLAYER_HEIGHT) * YS
    THEN LET c1 == [c EXCEPT !.s.player_y = (GROUND_Y - PLAYER_HEIGHT) * YS,
                             !.s.player_velocity_y = 0,
                             !.s.is_jumping = FALSE,
                             !.on_surface = TRUE,
                             !.clamped = TRUE]
         IN  IF GroundIsFatal(c1.s)
             THEN CheckHighScore(
                      [c1 EXCEPT !.s.game_over = TRUE,
                                 !.s.debris = generate_debris(
                                     PLAYER_X, c1.s.player_y \div YS, c1.rng),
                                 !.rng = Advance(c1.rng,
                                                 DEBRIS_COUNT * DebrisDraws)],
                      io)
             ELSE c1
    ELSE c

(* The first obstacle, in sequence order, the player lands on; 0 if none *)
RECURSIVE FirstLanding(_, _, _, _)
FirstLanding(obstacles, i, player_y, prev_player_y) ==
    IF i > Len(obstacles) THEN 0
    ELSE IF check_obstacle_collision(PLAYER_X, player_y, prev_player_y,
                                     obstacles[i])
    THEN i
    ELSE FirstLanding(obstacles, i + 1, player_y, prev_player_y)

(* A point for every landing *)
AwardPointEveryLanding(s, i) ==
    [s EXCEPT !.obstacles[i].scored = TRUE, !.score = s.score + 1]

(* A point that is not marked on the obstacle *)
AwardPointUnmarked(s, i) ==
    IF ~s.obstacles[i].scored
    THEN [s EXCEPT !.score = s.score + 1]
    ELSE s

(* game.py 781-784 *)
AwardPoint(s, i) ==
    IF ~s.obstacles[i].scored
    THEN [s EXCEPT !.obstacles[i].scored = TRUE, !.score = s.score + 1]
    ELSE s

(* game.py 773-785 *)
ObstacleLanding(c) ==
    IF ~c.on_surface /\ c.s.player_velocity_y >= 0
    THEN LET i == FirstLanding(c.s.obstacles, 1, c.s.player_y, c.prev_player_y)
         IN  IF i = 0 THEN c
             ELSE LET s1 == [c.s EXCEPT
                                !.player_y = (c.s.obstacles[i].y - PLAYER_HEIGHT) * YS,
                                !.player_velocity_y = 0,
                                !.is_jumping = FALSE]
                  IN  [c EXCEPT !.s = AwardPoint(s1, i),
                                !.on_surface = TRUE,
                                !.landed = c.s.obstacles[i].id]
    ELSE c

(* A jump impulse that leaves has_jumped as it was *)
JumpUnrecorded(s) ==
    [s EXCEPT !.player_velocity_y = JUMP_STRENGTH * YS,
              !.is_jumping = TRUE,
              !.jump_held = TRUE]

(* game.py 718-722 and 790-794: the jump impulse *)
Jump(s) ==
    [s EXCEPT !.player_velocity_y = JUMP_STRENGTH * YS,
              !.is_jumping = TRUE,
              !.jump_held = TRUE,
              !.has_jumped = TRUE]

(* A buffered jump that is cleared and never made *)
BufferedJumpDropped(c) ==
    IF c.s.jump_buffered THEN [c EXCEPT !.s.jump_buffered = FALSE] ELSE c

(* A buffered jump that waits for the next frame with a surface *)
BufferedJumpKept(c) ==
    IF c.s.jump_buffered /\ c.on_surface
    THEN [c EXCEPT !.s = [Jump(c.s) EXCEPT !.jump_buffered = FALSE],
                   !.fired = TRUE]
    ELSE c

(* game.py 787-796 *)
BufferedJump(c) ==
    IF c.s.jump_buffered
    THEN IF c.on_surface
         THEN [c EXCEPT !.s = [Jump(c.s) EXCEPT !.jump_buffered = FALSE],
                        !.fired = TRUE]
         ELSE [c EXCEPT !.s.jump_buffered = FALSE]
    ELSE c

(* game.py 798-801 *)
MoveObstacles(c) ==
    LET current_speed == get_scroll_speed(c.s.score)
    IN  [c EXCEPT !.s.obstacles =
            [i \in 1..Len(c.s.obstacles) |->
                [c.s.obstacles[i] EXCEPT !.x = c.s.obstacles[i].x - current_speed]]]

(* A prune that drops the front obstacle once its left edge is off screen *)
RemoveOffscreenAtLeftEdge(c) ==
    IF c.s.obstacles # << >> /\ c.s.obstacles[1].x < 0
    THEN [c EXCEPT !.s.obstacles = Tail(c.s.obstacles)]
    ELSE c

(* game.py 803-805 *)
RemoveOffscreen(c) ==
    IF c.s.obstacles # << >>
       /\ c.s.obstacles[1].x + c.s.obstacles[1].width * XS < 0
    THEN [c EXCEPT !.s.obstacles = Tail(c.s.obstacles)]
    ELSE c

(* A spawn that waits until the last obstacle's right edge is on screen *)
SpawnObstacleLate(c) ==
    IF c.s.obstacles # << >>
       /\ c.s.obstacles[Len(c.s.obstacles)].x
              + c.s.obstacles[Len(c.s.obstacles)].width * XS < SCREEN_WIDTH * XS
    THEN LET last_obs == c.s.obstacles[Len(c.s.obstacles)]
             new_obs == generate_obstacle(<<last_obs>>, FALSE,
                                          get_scroll_speed(c.s.score), c.rng)
         IN  [c EXCEPT !.s.obstacles = Append(c.s.obstacles,
                                              WithId(new_obs, c.spawned + 1)),
                       !.spawned = c.spawned + 1,
                       !.rng = Advance(c.rng, ObstacleDraws)]
    ELSE c

(* game.py 807-812 *)
SpawnObstacle(c) ==
    IF c.s.obstacles # << >>
       /\ c.s.obstacles[Len(c.s.obstacles)].x < SCREEN_WIDTH * XS
    THEN LET last_obs == c.s.obstacles[Len(c.s.obstacles)]
             new_obs == generate_obstacle(<<last_obs>>, FALSE,
                                          get_scroll_speed(c.s.score), c.rng)
         IN  [c EXCEPT !.s.obstacles = Append(c.s.obstacles,
                                              WithId(new_obs, c.spawned + 1)),
                       !.spawned = c.spawned + 1,
                       !.rng = Advance(c.rng, ObstacleDraws)]
    ELSE c

(* A debris step that throws a fresh burst from the player in every frame *)
DebrisStepRegenerates(c) ==
    IF c.s.game_over /\ c.s.debris # << >>
    THEN [c EXCEPT !.s.debris = update_debris(generate_debris(
                                    PLAYER_X, c.s.player_y \div YS, c.rng))]
    ELSE c

(* game.py 814-816 *)
DebrisStep(c) ==
    IF c.s.game_over /\ c.s.debris # << >>
    THEN [c EXCEPT !.s.debris = update_debris(c.s.debris)]
    ELSE c

(* game.py 743-816: the frame, in the order of the code *)
(* A frame that scrolls the obstacles before it looks for a landing *)
RunFrameScrollsFirst(c, io) ==
    IF ~c.s.game_over
    THEN DebrisStep(
           SpawnObstacle(
             RemoveOffscreen(
               BufferedJump(
                 ObstacleLanding(
                   GroundCollision(ApplyGravity(MoveObstacles(c)), io))))))
    ELSE DebrisStep(c)

(* A frame that goes on scrolling the obstacles after the death *)
RunFrameScrollsWhenDead(c, io) ==
    IF ~c.s.game_over
    THEN DebrisStep(
           SpawnObstacle(
             RemoveOffscreen(
               MoveObstacles(
                 BufferedJump(
                   ObstacleLanding(
                     GroundCollision(ApplyGravity(c), io)))))))
    ELSE DebrisStep(MoveObstacles(c))

RunFrame(c, io) ==
    IF ~c.s.game_over
    THEN DebrisStep(
           SpawnObstacle(
             RemoveOffscreen(
               MoveObstacles(
                 BufferedJump(
                   ObstacleLanding(
                     GroundCollision(ApplyGravity(c), io)))))))
    ELSE DebrisStep(c)

-----------------------------------------------------------------------------
(* The events, game.py 711-741 *)

(* A press that buffers the jump and makes it at once *)
SpaceDownJumpsInAir(s) ==
    IF ~s.game_over
    THEN IF ~s.is_jumping THEN Jump(s)
         ELSE Jump([s EXCEPT !.jump_buffered = TRUE])
    ELSE s

(* K_SPACE down, game.py 716-725 *)
SpaceDown(s) ==
    IF ~s.game_over
    THEN IF ~s.is_jumping THEN Jump(s) ELSE [s EXCEPT !.jump_buffered = TRUE]
    ELSE s

(* A release that never cuts the jump *)
SpaceUpNoCut(s) == [s EXCEPT !.jump_held = FALSE]

(* A release that halves the velocity whatever its sign *)
SpaceUpCutsAlways(s) ==
    [s EXCEPT !.jump_held = FALSE,
              !.player_velocity_y = s.player_velocity_y \div JUMP_CUT_DIVISOR]

(* K_SPACE up, game.py 736-741 *)
SpaceUp(s) ==
    LET s1 == [s EXCEPT !.jump_held = FALSE]
    IN  IF s1.player_velocity_y < 0
        THEN [s1 EXCEPT !.player_velocity_y =
                            s1.player_velocity_y \div JUMP_CUT_DIVISOR]
        ELSE s1

-----------------------------------------------------------------------------
(* The game: main(), game.py 700-848 *)

(* What the last step did: clamped, the ground clamp ran; landed, the id of
   the obstacle landed on (0 for none); point, the landing scored; airborne,
   is_jumping was set when the frame began; buffered, jump_buffered was set
   when the frame began; fired, the buffered jump fired; save, what became
   of the call of save_high_score; pending, the space key went down while
   is_jumping was set and no frame of the run since has landed the player
   on an obstacle *)
Event(kind) ==
    [kind |-> kind, clamped |-> FALSE, landed |-> 0, point |-> FALSE,
     airborne |-> FALSE, buffered |-> FALSE, fired |-> FALSE,
     save |-> "none", pending |-> FALSE]

(* The score files a game starts with: none, a record save_high_score
   wrote *)
InitFiles == {AbsentFile, SavedRecord(1)}

(* The generator positions a session starts from *)
Seeds == {k * ObstacleDraws : k \in 0..(NSeeds - 1)}

Init ==
    \E seed \in Seeds, f \in InitFiles :
        /\ state = reset_game(seed, f)
        /\ file = f
        /\ rng = Advance(seed, ResetDraws)
        /\ space_down = FALSE
        /\ ticks = 0
        /\ dead_ticks = 0
        /\ cuts = 0
        /\ held = 0
        /\ resets = 0
        /\ spawned = INITIAL_OBSTACLE_COUNT + 1
        /\ ev = Event("init")

(* KEYDOWN K_SPACE: the key goes down only when it is up, and in a running
   game not before frame QuietFrames (no obstacle is within reach earlier) *)
KeyDown ==
    /\ ~space_down
    /\ ~state.game_over => ticks >= QuietFrames
    /\ space_down' = TRUE
    /\ state' = SpaceDown(state)
    /\ held' = 0
    /\ ev' = [Event("keydown") EXCEPT
                 !.pending = ev.pending
                               \/ (~state.game_over /\ state.is_jumping)]
    /\ UNCHANGED <<file, rng, ticks, dead_ticks, cuts, resets, spawned>>

(* KEYUP K_SPACE. A cut halves the velocity: the unit YS carries MaxCuts
   halvings, so a further cut waits; and a release that cuts comes within
   MaxCutHold frames of the key going down. *)
KeyUp ==
    /\ space_down
    /\ state.player_velocity_y < 0 => cuts < MaxCuts /\ held <= MaxCutHold
    /\ space_down' = FALSE
    /\ state' = SpaceUp(state)
    /\ cuts' = IF state.player_velocity_y < 0 THEN cuts + 1 ELSE cuts
    /\ held' = 0
    /\ ev' = [Event("keyup") EXCEPT !.pending = ev.pending]
    /\ UNCHANGED <<file, rng, ticks, dead_ticks, resets, spawned>>

(* A return key that resets the game whether it is over or not *)
KeyReturnAlways ==
    /\ resets < MaxResets
    /\ state' = reset_game(rng, file)
    /\ resets' = resets + 1
    /\ held' = 0
    /\ rng' = Advance(rng, ResetDraws)
    /\ ticks' = 0
    /\ dead_ticks' = 0
    /\ cuts' = 0
    /\ spawned' = INITIAL_OBSTACLE_COUNT + 1
    /\ ev' = Event("reset")
    /\ UNCHANGED <<file, space_down>>

(* KEYDOWN K_RETURN, game.py 727-731: a reset while the game is over, and
   nothing otherwise *)
KeyReturn ==
    IF state.game_over
    THEN /\ resets < MaxResets
         /\ state' = reset_game(rng, file)
         /\ resets' = resets + 1
         /\ held' = 0
         /\ rng' = Advance(rng, ResetDraws)
         /\ ticks' = 0
         /\ dead_ticks' = 0
         /\ cuts' = 0
         /\ spawned' = INITIAL_OBSTACLE_COUNT + 1
         /\ ev' = Event("reset")
         /\ UNCHANGED <<file, space_down>>
    ELSE UNCHANGED vars

(* The write of save_high_score can fail only in a frame that calls it *)
FrameSaves(s) ==
    /\ ~s.game_over
    /\ s.player_y + s.player_velocity_y + GRAVITY >= (GROUND_Y - PLAYER_HEIGHT) * YS
    /\ s.has_jumped
    /\ s.score > s.high_score

(* The frame after the events of this loop iteration *)
Tick ==
    /\ IF state.game_over THEN dead_ticks < MaxDeadTicks
       ELSE ticks < (IF resets = 0 THEN MaxTicks ELSE MaxReplayTicks)
    /\ \E io \in IoOutcomes :
        /\ io # "ok" => FrameSaves(state)
        /\ LET c == RunFrame(StartFrame(state, rng, file, spawned), io)
           IN  /\ state' = c.s
               /\ file' = c.file
               /\ rng' = c.rng
               /\ spawned' = c.spawned
               /\ ev' = [kind |-> "tick", clamped |-> c.clamped,
                         landed |-> c.landed,
                         point |-> c.s.score # state.score,
                         airborne |-> state.is_jumping,
                         buffered |-> state.jump_buffered,
                         fired |-> c.fired, save |-> c.save,
                         pending |-> /\ ev.pending
                                     /\ c.landed = 0
                                     /\ ~c.s.game_over]
    /\ ticks' = ticks + 1
    /\ dead_ticks' = IF state.game_over THEN dead_ticks + 1 ELSE dead_ticks
    /\ held' = IF space_down /\ held <= MaxCutHold THEN held + 1 ELSE held
    /\ UNCHANGED <<space_down, cuts, resets>>

Next == KeyDown \/ KeyUp \/ KeyReturn \/ Tick

Spec == Init /\ [][Next]_vars

-----------------------------------------------------------------------------
(* The score store on its own: save_high_score, load_high_score and
   reset_game called in any order, as the tests call them, while the file is
   edited from outside. ev records the call: ret is what load_high_score
   did in this call, ok what save_high_score returned, saved the score of
   the last successful save (JMissing before one), nsaves the successful
   saves in a row and prev the score of the save before the last of them,
   edit what happened to the file since the last successful save and nedits
   how many edits that were. *)

StoreScores == (-1..MaxStoreScore) \cup {10}

StoreEvent(kind, ret, ok, saved, prev, nsaves, edit, nedits) ==
    [kind |-> kind, ret |-> ret, ok |-> ok, saved |-> saved, prev |-> prev,
     nsaves |-> nsaves, edit |-> edit, nedits |-> nedits]

NoCall == [raised |-> FALSE, value |-> JMissing]

(* The signatures an editor without the key can write: strings of its own,
   and the signatures of records it has seen *)
EditorTexts ==
    {EmptyText, Lit(<<"f", "a", "k", "e">>)}
        \cup {_compute_score_signature(JInt(s)) : s \in StoreScores}

(* The values an editor can put in the high_score field *)
EditorScores ==
    {JInt(s) : s \in StoreScores \cup {9999}}
        \cup {JFloat(1), JNull, JArray, JStr(Lit(StrInt(1)))}

(* The record of an edit of kind k *)
AfterEdit(k) ==
    StoreEvent("edit", NoCall, FALSE, ev.saved, JMissing, 0,
               IF ev.edit = "none" THEN k ELSE "several", ev.nedits + 1)

StoreInit ==
    /\ file = AbsentFile
    /\ rng \in Seeds
    /\ state = reset_game(rng, AbsentFile)
    /\ space_down = FALSE
    /\ ticks = 0
    /\ dead_ticks = 0
    /\ cuts = 0
    /\ held = 0
    /\ resets = 0
    /\ spawned = INITIAL_OBSTACLE_COUNT + 1
    /\ ev = StoreEvent("init", NoCall, FALSE, JMissing, JMissing, 0, "none", 0)

StoreFrame == <<space_down, ticks, dead_ticks, cuts, held, spawned>>

SaveCall ==
    \E s \in StoreScores, io \in IoOutcomes :
        LET w == save_high_score(file, s, io)
        IN  /\ file' = w.file
            /\ ev' = IF w.ret
                     THEN StoreEvent("save", NoCall, TRUE, JInt(s),
                                     IF ev.nsaves > 0 THEN ev.saved
                                     ELSE JMissing,
                                     Min(ev.nsaves + 1, 2), "none", 0)
                     ELSE IF io = "open_fails"
                     THEN [ev EXCEPT !.kind = "save", !.ret = NoCall,
                                     !.ok = FALSE]
                     ELSE StoreEvent("save", NoCall, FALSE, ev.saved, JMissing,
                                     0, "several", ev.nedits)
            /\ UNCHANGED <<state, rng, resets, StoreFrame>>

LoadCall ==
    /\ ev' = [ev EXCEPT !.kind = "load", !.ret = load_high_score(file)]
    /\ UNCHANGED <<file, state, rng, resets, StoreFrame>>

(* reset_game(): it returns no state when load_high_score raises. The
   GameState of the model holds an int high score: the call is left out
   when the file verifies with a score that is not an int. *)
ResetCall ==
    LET l == load_high_score(file)
    IN  /\ l.raised \/ l.value.t = "int"
        /\ resets < MaxResets + 1
        /\ IF l.raised
           THEN /\ ev' = [ev EXCEPT !.kind = "reset_raised", !.ret = l]
                /\ UNCHANGED <<state, rng, resets>>
           ELSE /\ state' = reset_game(rng, file)
                /\ rng' = Advance(rng, ResetDraws)
                /\ resets' = resets + 1
                /\ ev' = [ev EXCEPT !.kind = "reset", !.ret = l]
        /\ UNCHANGED <<file, StoreFrame>>

IsObject(f) == f.kind = "json" /\ f.top = "object"

EditScore ==
    /\ IsObject(file)
    /\ ev.nedits < MaxEdits
    /\ \E v \in EditorScores :
        /\ v # file.high_score
        /\ file' = [file EXCEPT !.high_score = v]
        /\ ev' = AfterEdit(IF v.t = "int" /\ file.high_score.t = "int"
                           THEN "score" ELSE "score_type")
    /\ UNCHANGED <<state, rng, resets, StoreFrame>>

EditSignature ==
    /\ IsObject(file)
    /\ ev.nedits < MaxEdits
    /\ \E s \in EditorTexts :
        /\ JStr(s) # file.signature
        /\ file' = [file EXCEPT !.signature = JStr(s)]
        /\ ev' = AfterEdit(IF file.signature.t = "str"
                           THEN "signature" ELSE "signature_added")
    /\ UNCHANGED <<state, rng, resets, StoreFrame>>

RemoveField ==
    /\ IsObject(file)
    /\ ev.nedits < MaxEdits
    /\ \/ /\ file.signature.t # "missing"
          /\ file' = [file EXCEPT !.signature = JMissing]
          /\ ev' = AfterEdit("signature_removed")
       \/ /\ file.high_score.t # "missing"
          /\ file' = [file EXCEPT !.high_score = JMissing]
          /\ ev' = AfterEdit("score_removed")
       \/ /\ file.signature.t # "int"
          /\ file' = [file EXCEPT !.signature = JInt(5)]
          /\ ev' = AfterEdit("signature_type")
    /\ UNCHANGED <<state, rng, resets, StoreFrame>>

(* The file is deleted or written over as a whole *)
WholeFiles ==
    {AbsentFile, UnreadableFile, UndecodableFile, TextFile,
     OtherJsonFile("array"), OtherJsonFile("number"),
     OtherJsonFile("string"), OtherJsonFile("null"),
     ObjectFile(JMissing, JMissing), ForgedFile}

ReplaceFile ==
    /\ ev.nedits < MaxEdits
    /\ \E f \in WholeFiles :
        /\ f # file
        /\ file' = f
        /\ ev' = AfterEdit("replaced")
    /\ UNCHANGED <<state, rng, resets, StoreFrame>>

StoreNext ==
    \/ SaveCall
    \/ LoadCall
    \/ ResetCall
    \/ EditScore
    \/ EditSignature
    \/ RemoveField
    \/ ReplaceFile

SpecStore == StoreInit /\ [][StoreNext]_vars

-----------------------------------------------------------------------------
(* Properties of the game, read on Spec *)

(* C1: in a frame run while game_over is false, game_over becomes true if
   and only if the integrated player_y reaches GROUND_Y - PLAYER_HEIGHT while
   has_jumped is true; a frame in which the player lands on an obstacle
   never ends the run. *)
C1_GameOverIffFatalGround ==
    [][(ev'.kind = "tick" /\ ~state.game_over) =>
          LET integrated == state.player_y + state.player_velocity_y + GRAVITY
              ground_contact == integrated >= (GROUND_Y - PLAYER_HEIGHT) * YS
          IN  /\ state'.game_over <=> (ground_contact /\ state.has_jumped)
              /\ ground_contact <=> ev'.clamped
              /\ ev'.landed # 0 => ~state'.game_over]_vars

(* The run ends on the ground after a platform was landed on *)
C1_Witness ==
    /\ ev.kind = "tick"
    /\ ev.clamped
    /\ state.game_over
    /\ dead_ticks = 0
    /\ state.score >= 1

(* C2: an obstacle's scored flag never goes from true to false; the score
   rises by exactly 1 in the frame of the first landing on an obstacle, and
   no other frame or event of a run changes it, a later landing on the same
   obstacle included. *)
C2_ScoredOnce ==
    [][ev'.kind # "reset" =>
          LET old == state.obstacles
              new == state'.obstacles
              first_landing ==
                  /\ ev'.kind = "tick"
                  /\ ev'.landed # 0
                  /\ \E i \in 1..Len(old) :
                        old[i].id = ev'.landed /\ ~old[i].scored
          IN  /\ \A i \in 1..Len(old), j \in 1..Len(new) :
                    (old[i].id = new[j].id /\ old[i].scored) => new[j].scored
              /\ ev'.landed # 0 =>
                    \E j \in 1..Len(new) :
                        new[j].id = ev'.landed /\ new[j].scored
              /\ state'.score = IF first_landing THEN state.score + 1
                                ELSE state.score]_vars

(* The player jumped off an obstacle that had scored and came down on it
   again: the score stays *)
C2_Witness ==
    /\ ev.kind = "tick"
    /\ ev.landed # 0
    /\ ev.airborne
    /\ ~ev.point
    /\ state.score = 1

(* C6: in the frame the run ends, a score above high_score becomes the high
   score, sets high_score_beaten and is handed to save_high_score, and the
   memory is updated whether the save returns True or False; otherwise
   high_score, high_score_beaten and the file stay as they were. *)
C6_HighScoreOnDeath ==
    [][(ev'.kind = "tick" /\ ~state.game_over /\ state'.game_over) =>
          IF state.score > state.high_score
          THEN /\ state'.high_score = state.score
               /\ state'.high_score_beaten
               /\ ev'.save \in {"ok", "failed"}
               /\ ev'.save = "ok" => file' = SavedRecord(state.score)
               /\ ev'.save = "failed" => file' \in {file, TextFile}
          ELSE /\ state'.high_score = state.high_score
               /\ state'.high_score_beaten = state.high_score_beaten
               /\ ev'.save = "none"
               /\ file' = file]_vars

(* The run ended with a new high score whose save failed *)
C6_Witness ==
    /\ ev.kind = "tick"
    /\ state.game_over
    /\ dead_ticks = 0
    /\ ev.save = "failed"
    /\ state.high_score_beaten
    /\ state.high_score = state.score
    /\ file # SavedRecord(state.score)

(* C7: the state reset_game returns, at the start and after a run of any
   outcome, has player_velocity_y = 0, is_jumping, jump_held, jump_buffered
   false, score 0, game_over false, high_score_beaten false and no debris. *)
C7_ResetFields ==
    ev.kind \in {"init", "reset"} =>
        /\ state.player_velocity_y = 0
        /\ ~state.is_jumping
        /\ ~state.jump_held
        /\ ~state.jump_buffered
        /\ state.score = 0
        /\ ~state.game_over
        /\ ~state.high_score_beaten
        /\ state.debris = << >>

(* A reset, with the space key held, after a run that ended on the ground
   under a stored high score of 1 *)
C7_Witness ==
    /\ ev.kind = "reset"
    /\ resets = 1
    /\ space_down
    /\ state.high_score = 1
    /\ file = SavedRecord(1)

(* C8: reset_game returns INITIAL_OBSTACLE_COUNT + 2 obstacles, the first of
   them the starting platform with scored true, every other with scored
   false. *)
C8_ResetChain ==
    ev.kind \in {"init", "reset"} =>
        /\ Len(state.obstacles) = INITIAL_OBSTACLE_COUNT + 2
        /\ state.obstacles[1].scored
        /\ \A i \in 2..Len(state.obstacles) : ~state.obstacles[i].scored

(* C9: after reset_game the player stands on the starting platform
   (player_y = GROUND_Y - OBSTACLE_THICKNESS - PLAYER_HEIGHT), has_jumped is
   true and game_over false. *)
C9_StartsOnPlatform ==
    ev.kind \in {"init", "reset"} =>
        /\ state.player_y = (GROUND_Y - OBSTACLE_THICKNESS - PLAYER_HEIGHT) * YS
        /\ state.has_jumped
        /\ ~state.game_over

(* C18, as claimed: after the space key went down while is_jumping was
   set, the first frame that lands the player on an obstacle applies the
   jump impulse, however many frames lie between. *)
C18_BufferedJumpFiresOnNextLanding ==
    [][(ev'.kind = "tick" /\ ~state.game_over /\ ev.pending
          /\ ev'.landed # 0) =>
           (ev'.fired /\ state'.player_velocity_y = JUMP_STRENGTH * YS)]_vars

(* C18, amended: when the space key went down while is_jumping was set and
   the frame of the same loop iteration lands the player on an obstacle,
   that frame applies the jump impulse; a press followed by a frame without
   a landing is dropped, and a later landing applies no impulse. *)
C18_BufferedJumpFiresOnSameFrameLanding ==
    [][(ev'.kind = "tick" /\ ~state.game_over /\ ev'.landed # 0) =>
           IF state.jump_buffered
           THEN /\ ev'.fired
                /\ state'.player_velocity_y = JUMP_STRENGTH * YS
                /\ state'.is_jumping
                /\ state'.jump_held
                /\ state'.has_jumped
           ELSE /\ ~ev'.fired
                /\ state'.player_velocity_y = 0
                /\ ~state'.is_jumping]_vars

(* A frame that landed the player on an obstacle and made the buffered
   jump, the key having gone down in the air *)
C18_Witness ==
    /\ ev.kind = "tick"
    /\ ev.buffered
    /\ ev.airborne
    /\ ev.landed # 0
    /\ ev.fired
    /\ ~state.game_over
    /\ state.player_velocity_y = JUMP_STRENGTH * YS

(* C19: a frame run while game_over is false leaves jump_buffered false,
   grounded or not; the impulse of a buffered jump is applied only in a
   frame that began with jump_buffered set and in which the player came to
   rest on the ground or an obstacle, so once for each press buffered. *)
C19_BufferClearedEveryFrame ==
    [][(ev'.kind = "tick" /\ ~state.game_over) =>
           /\ ~state'.jump_buffered
           /\ ev'.fired =>
                  /\ state.jump_buffered
                  /\ ev'.clamped \/ ev'.landed # 0
           /\ (state.jump_buffered /\ ~ev'.clamped /\ ev'.landed = 0) =>
                  /\ ~ev'.fired
                  /\ state'.player_velocity_y
                         = state.player_velocity_y + GRAVITY]_vars

(* A frame that began with jump_buffered set, found no surface and cleared
   it *)
C19_Witness ==
    /\ ev.kind = "tick"
    /\ ev.buffered
    /\ ~ev.clamped
    /\ ev.landed = 0
    /\ ~ev.fired
    /\ ~state.jump_buffered
    /\ ~state.game_over

(* C20: the debris list is empty while game_over is false and holds
   DEBRIS_COUNT particles while it is true; it is filled in the frame that
   sets game_over and in no other, and until a reset no particle is added
   or removed: a later frame moves each particle on by its velocity and
   any other step leaves the list alone. *)
C20_DebrisOncePerRun ==
    [][/\ ~state.game_over => state.debris = << >>
       /\ state.game_over => Len(state.debris) = DEBRIS_COUNT
       /\ ~state'.game_over => state'.debris = << >>
       /\ state'.game_over => Len(state'.debris) = DEBRIS_COUNT
       /\ (state.debris = << >> /\ state'.debris # << >>) <=>
              (ev'.kind = "tick" /\ ~state.game_over /\ state'.game_over)
       /\ (state.game_over /\ ev'.kind # "reset") =>
              /\ state'.game_over
              /\ Len(state'.debris) = Len(state.debris)
              /\ ev'.kind # "tick" => state'.debris = state.debris
              /\ \A i \in 1..Len(state.debris) :
                     LET d == state.debris[i]
                         e == state'.debris[i]
                     IN  /\ e.size = d.size
                         /\ ev'.kind = "tick" =>
                                /\ e.x = d.x + e.vel_x
                                /\ e.bounces = d.bounces =>
                                       e.y = d.y + e.vel_y]_vars

(* The last frame run with game_over set: the particles of the burst are
   all there and in flight *)
C20_Witness ==
    /\ state.game_over
    /\ ev.kind = "tick"
    /\ dead_ticks = MaxDeadTicks
    /\ Len(state.debris) = DEBRIS_COUNT
    /\ \A i \in 1..Len(state.debris) : state.debris[i].vel_y # 0

(* C21: once game_over is true it stays true until a reset, and a frame
   that begins with game_over true changes nothing of the state but the
   debris: player_y, player_velocity_y, score, high_score and the obstacles
   (positions, membership, scored flags) stay as they are, and so do the
   score file and the generator. *)
C21_DeadFramesFreeze ==
    [][state.game_over =>
           /\ ev'.kind # "reset" => state'.game_over
           /\ ev'.kind = "tick" =>
                  /\ state' = [state EXCEPT !.debris = state'.debris]
                  /\ state'.debris = update_debris(state.debris)
                  /\ state'.player_y = state.player_y
                  /\ state'.player_velocity_y = state.player_velocity_y
                  /\ state'.score = state.score
                  /\ state'.high_score = state.high_score
                  /\ state'.obstacles = state.obstacles
                  /\ file' = file
                  /\ rng' = rng
                  /\ spawned' = spawned]_vars

(* A frame run after the death, with obstacles on the screen and debris
   that moved *)
C21_Witness ==
    /\ state.game_over
    /\ ev.kind = "tick"
    /\ dead_ticks >= 1
    /\ Len(state.obstacles) >= INITIAL_OBSTACLE_COUNT
    /\ \E i \in 1..Len(state.obstacles) : state.obstacles[i].x < SCREEN_WIDTH * XS
    /\ \E i \in 1..Len(state.debris) : state.debris[i].vel_y # 0

(* C22: a reset request acts only while game_over is true. No step resets
   a running game, no step but a reset brings a game that is over back to
   life, and a reset replaces the whole state by a fresh reset_game()
   state: score 0, game_over false, no debris, a new chain of unscored
   obstacles, nothing of the flags of the old state. *)
C22_ResetOnlyWhenOver ==
    [][/\ ev'.kind = "reset" =>
              /\ state.game_over
              /\ state' = reset_game(rng, file)
              /\ state'.score = 0
              /\ ~state'.game_over
              /\ state'.debris = << >>
              /\ ~state'.is_jumping
              /\ ~state'.jump_held
              /\ ~state'.jump_buffered
              /\ state'.player_velocity_y = 0
              /\ Len(state'.obstacles) > 0
              /\ \A i \in 1..Len(state'.obstacles) :
                     ~state'.obstacles[i].scored
       /\ (state.game_over /\ ~state'.game_over) => ev'.kind = "reset"
       /\ (~state.game_over /\ ev'.kind # "tick") =>
              /\ state'.score = state.score
              /\ state'.obstacles = state.obstacles
              /\ state'.debris = state.debris
              /\ state'.player_y = state.player_y
              /\ state'.high_score = state.high_score]_vars

(* The state after a reset of a game that was over: a fresh run, with the
   record of the score file as its high score *)
C22_Witness ==
    /\ ev.kind = "reset"
    /\ resets = 1
    /\ state.score = 0
    /\ state.debris = << >>
    /\ ~state.game_over
    /\ state.high_score >= 1

(* C30: in a running game, after a frame in which the player neither was
   clamped to the ground nor landed on an obstacle, is_jumping is true (so
   that a press in mid-air buffers the jump and applies no impulse). *)
C30_AirborneMeansJumping ==
    (ev.kind = "tick" /\ ~state.game_over /\ ~ev.clamped /\ ev.landed = 0) =>
        state.is_jumping

(* C26: a frame of a running game takes its steps in a fixed order. The
   ground clamp is decided on the y that gravity has just produced; the
   landing test takes that y as the current position, the y the frame began
   with as the previous one, and the obstacles where they stood before this
   frame's scroll, and picks the first obstacle that passes; the scroll
   comes after the landing, at the speed of the score the landing has left;
   the spawn looks at the last obstacle after the scroll; the debris of a
   death frame is drawn before the spawn draws and has moved one step when
   the frame ends. *)
C26_FrameOrder ==
    [][(ev'.kind = "tick" /\ ~state.game_over) =>
        LET v1 == state.player_velocity_y + GRAVITY
            y1 == state.player_y + v1
            obs == state.obstacles
            hit(i) == check_obstacle_collision(PLAYER_X, y1, state.player_y,
                                               obs[i])
            speed == get_scroll_speed(state'.score)
            last == obs[Len(obs)]
        IN  /\ ev'.clamped <=> y1 >= (GROUND_Y - PLAYER_HEIGHT) * YS
            /\ ev'.landed # 0 =>
                   /\ ~ev'.clamped
                   /\ v1 >= 0
                   /\ \E i \in 1..Len(obs) :
                          /\ obs[i].id = ev'.landed
                          /\ hit(i)
                          /\ \A j \in 1..(i - 1) : ~hit(j)
            /\ (ev'.landed = 0 /\ ~ev'.clamped /\ v1 >= 0) =>
                   \A i \in 1..Len(obs) : ~hit(i)
            /\ \A i \in 1..Len(obs) : \A j \in 1..Len(state'.obstacles) :
                   state'.obstacles[j].id = obs[i].id =>
                       state'.obstacles[j].x = obs[i].x - speed
            /\ spawned' = spawned + 1 <=> last.x - speed < SCREEN_WIDTH * XS
            /\ spawned' = spawned + 1 =>
                   state'.obstacles[Len(state'.obstacles)].x
                       >= last.x - speed + last.width * XS + MIN_GAP * XS
            /\ state'.game_over =>
                   state'.debris = update_debris(generate_debris(
                       PLAYER_X, GROUND_Y - PLAYER_HEIGHT, rng))]_vars

(* A frame in which the player landed from a jump on an unscored obstacle:
   the obstacles then moved at the speed of the new score *)
C26_Witness ==
    /\ ev.kind = "tick"
    /\ ev.landed # 0
    /\ ev.point
    /\ ev.airborne
    /\ get_scroll_speed(state.score) > get_scroll_speed(state.score - 1)
    /\ ~state.game_over

(* C32: whenever game_over is true the player is at rest on the ground:
   player_y = GROUND_Y - PLAYER_HEIGHT, player_velocity_y = 0 and
   is_jumping false, a jump buffered for the fatal frame included. *)
C32_DeadPlayerAtRest ==
    state.game_over =>
        /\ state.player_y = (GROUND_Y - PLAYER_HEIGHT) * YS
        /\ state.player_velocity_y = 0
        /\ ~state.is_jumping

(* C33: while game_over is true a press and a release of the space key
   change no field of the game state. *)
C33_DeadKeysChangeNothing ==
    [][(state.game_over /\ ev'.kind \in {"keydown", "keyup"}) =>
           state' = state]_vars

(* C37: the high score of the state a reset returns is no lower than the
   high score of the dead state it replaces, also when the save made at the
   death returned False. *)
C37_ResetKeepsHighScore ==
    [][ev'.kind = "reset" => state'.high_score >= state.high_score]_vars

(* C38: within a run has_jumped never goes from true to false, and
   is_jumping or jump_buffered implies has_jumped. So a ground clamp that
   ends a frame begun with is_jumping set is fatal, and a buffered jump
   that fires in a frame with a ground clamp fires in a fatal one. *)
C38_HasJumpedSticks ==
    [][/\ (state.has_jumped /\ ev'.kind # "reset") => state'.has_jumped
       /\ (state.is_jumping \/ state.jump_buffered) => state.has_jumped
       /\ (state'.is_jumping \/ state'.jump_buffered) => state'.has_jumped
       /\ (ev'.kind = "tick" /\ ~state.game_over /\ ev'.clamped) =>
              /\ state.is_jumping => state'.game_over
              /\ ev'.fired => state'.game_over
              /\ ~state.has_jumped => (~state'.game_over /\ ~ev'.fired)]_vars

(* The frame in which a player who jumped comes down on the bare ground
   with a jump buffered: the contact is fatal *)
C38_Witness ==
    /\ ev.kind = "tick"
    /\ ev.clamped
    /\ ev.airborne
    /\ ev.buffered
    /\ state.game_over
    /\ state.has_jumped

-----------------------------------------------------------------------------
(* Properties of the score store, read on SpecStore *)

(* The file holds an object whose signature field is the signature of its
   high_score field *)
SignatureMatches(f) ==
    /\ IsObject(f)
    /\ f.high_score.t # "missing"
    /\ f.signature = JStr(_compute_score_signature(f.high_score))

(* C3: a load_high_score that follows a save_high_score(s) that returned
   True returns s; after several saves it returns the last saved score. *)
C3_SaveLoadRoundTrip ==
    (ev.kind = "load" /\ ev.nsaves >= 1 /\ ev.edit = "none") =>
        ev.ret = Returns(ev.saved)

(* A load after two saves of different scores, the last one negative *)
C3_Witness ==
    /\ ev.kind = "load"
    /\ ev.nsaves = 2
    /\ ev.edit = "none"
    /\ ev.prev = JInt(10)
    /\ ev.saved = JInt(-1)
    /\ ev.ret = Returns(JInt(-1))

(* C4: after a save, a record whose score was replaced by another score
   under the same signature, whose signature was replaced by another string
   or whose signature was removed loads as 0; so does no file; and a load
   returns a score other than 0 only from a record whose signature is the
   one computed over its score. *)
C4_TamperedLoadsZero ==
    ev.kind = "load" =>
        /\ ev.edit \in {"score", "signature", "signature_removed"} =>
               ev.ret = Returns(JInt(0))
        /\ file = AbsentFile => ev.ret = Returns(JInt(0))
        /\ (~ev.ret.raised /\ ev.ret # Returns(JInt(0))) =>
               (SignatureMatches(file) /\ ev.ret = Returns(file.high_score))

(* A load of a record saved with score 1 and edited to 9999 *)
C4_Witness ==
    /\ ev.kind = "load"
    /\ ev.edit = "score"
    /\ ev.saved = JInt(1)
    /\ file = ObjectFile(JInt(9999), JStr(_compute_score_signature(JInt(1))))
    /\ ev.ret = Returns(JInt(0))

(* C5: load_high_score never raises, and returns 0 for every content of the
   file that is not an object with a score and the signature of that
   score. *)
C5_LoadNeverRaises ==
    ev.kind = "load" =>
        /\ ~ev.ret.raised
        /\ ~SignatureMatches(file) => ev.ret = Returns(JInt(0))

(* C10: reset_game sets high_score to what load_high_score returns at that
   moment: the persisted score of a valid record, 0 when there is no file or
   the record was tampered with; and score to 0. *)
C10_ResetLoadsHighScore ==
    ev.kind = "reset" =>
        /\ state.score = 0
        /\ ev.ret = Returns(JInt(state.high_score))
        /\ SignatureMatches(file) => JInt(state.high_score) = file.high_score
        /\ (ev.nsaves >= 1 /\ ev.edit = "none") =>
               JInt(state.high_score) = ev.saved
        /\ file = AbsentFile => state.high_score = 0
        /\ ev.edit \in {"score", "signature", "signature_removed"} =>
               state.high_score = 0
        /\ file = ForgedFile => state.high_score = 0

(* A second reset, which finds the record of a save of 10 *)
C10_Witness ==
    /\ ev.kind = "reset"
    /\ resets = 2
    /\ ev.saved = JInt(10)
    /\ ev.edit = "none"
    /\ state.high_score = 10
    /\ state.score = 0

-----------------------------------------------------------------------------
(* The generator on its own: generate_obstacle called as reset_game and the
   spawn step call it, and as the tests do, with the random generator in any
   position and at any of GenSpeeds. The chain built is state.obstacles; ev
   records the call: how it was made (kind), how the chain began (start),
   and the speed passed. *)

GenScores == {k * GenScoreStep : k \in 0..(NGenSpeeds - 1)}
GenSpeeds == {get_scroll_speed(s) : s \in GenScores}
GenPositions == 0..(Len(Pattern) - 1)

GenEvent(kind, start, speed) == [kind |-> kind, start |-> start, speed |-> speed]

GenInit ==
    /\ state = [reset_game(0, AbsentFile) EXCEPT !.obstacles = << >>]
    /\ file = AbsentFile
    /\ rng = 0
    /\ space_down = FALSE
    /\ ticks = 0
    /\ dead_ticks = 0
    /\ cuts = 0
    /\ held = 0
    /\ resets = 0
    /\ spawned = 0
    /\ ev = GenEvent("init", "none", BASE_SCROLL_SPEED * XS)

GenFrame == <<file, space_down, ticks, dead_ticks, cuts, held, resets>>

(* generate_obstacle(from_ground=True), game.py 678 *)
GenFromGround ==
    \E r \in GenPositions, speed \in GenSpeeds :
        /\ state' = [state EXCEPT !.obstacles =
                        <<WithId(generate_obstacle(<< >>, TRUE, speed, r), 1)>>]
        /\ rng' = Advance(r, ObstacleDraws)
        /\ spawned' = 1
        /\ ev' = GenEvent("from_ground", "from_ground", speed)
        /\ UNCHANGED GenFrame

(* generate_obstacle(), no previous obstacle and not from the ground *)
GenAlone ==
    \E r \in GenPositions, speed \in GenSpeeds :
        /\ state' = [state EXCEPT !.obstacles =
                        <<WithId(generate_obstacle(<< >>, FALSE, speed, r), 1)>>]
        /\ rng' = Advance(r, ObstacleDraws)
        /\ spawned' = 1
        /\ ev' = GenEvent("alone", "alone", speed)
        /\ UNCHANGED GenFrame

(* generate_obstacle(last_obstacle, speed=speed), game.py 684 and 811 *)
GenChained ==
    /\ state.obstacles # << >>
    /\ Len(state.obstacles) < MaxChain
    /\ \E r \in GenPositions, speed \in GenSpeeds :
        LET last_obs == state.obstacles[Len(state.obstacles)]
            new_obs == generate_obstacle(<<last_obs>>, FALSE, speed, r)
        IN  /\ state' = [state EXCEPT !.obstacles =
                            Append(state.obstacles, WithId(new_obs, spawned + 1))]
            /\ rng' = Advance(r, ObstacleDraws)
            /\ spawned' = spawned + 1
            /\ ev' = GenEvent("chained", ev.start, speed)
            /\ UNCHANGED GenFrame

GenNext == GenFromGround \/ GenAlone \/ GenChained

SpecGen == GenInit /\ [][GenNext]_vars

-----------------------------------------------------------------------------
(* Properties of the generator, read on SpecGen *)

(* The gap, in 1/XS pixel, between the last obstacle of the chain and the
   one before it *)
LastGap ==
    LET n == Len(state.obstacles)
    IN  state.obstacles[n].x
          - (state.obstacles[n - 1].x + state.obstacles[n - 1].width * XS)

(* C11: the gap between a chained obstacle and the one it was chained to
   lies in [get_min_gap(speed), max(get_min_gap(speed), MAX_GAP)]: in
   [MIN_GAP, MAX_GAP] at BASE_SCROLL_SPEED, and equal to get_min_gap(speed)
   when that is MAX_GAP or more, as at MAX_SCROLL_SPEED. *)
C11_ChainedGap ==
    ev.kind = "chained" =>
        /\ LastGap >= get_min_gap(ev.speed) * XS
        /\ LastGap <= Max(get_min_gap(ev.speed), MAX_GAP) * XS
        /\ ev.speed = BASE_SCROLL_SPEED * XS =>
               (LastGap >= MIN_GAP * XS /\ LastGap <= MAX_GAP * XS)
        /\ get_min_gap(ev.speed) >= MAX_GAP =>
               LastGap = get_min_gap(ev.speed) * XS
        /\ ev.speed = MAX_SCROLL_SPEED * XS =>
               LastGap = (MAX_SCROLL_SPEED * MIN_JUMP_FRAMES
                            - MIN_OBSTACLE_WIDTH + GAP_BUFFER) * XS

(* An obstacle chained at MAX_SCROLL_SPEED while the generator would draw
   the upper end of the gap *)
C11_Witness ==
    /\ ev.kind = "chained"
    /\ ev.speed = MAX_SCROLL_SPEED * XS
    /\ get_min_gap(ev.speed) > MAX_GAP
    /\ LastGap = get_min_gap(ev.speed) * XS
    /\ Draw(rng - ObstacleDraws + 1) = 4

(* C12: in a chain begun from the ground and extended by chaining, every y
   lies in [MIN_PLATFORM_Y, MAX_PLATFORM_Y], every step up is at most
   MAX_JUMP_HEIGHT and every step down at most MAX_HEIGHT_DIFF, and the
   first y lies in [GROUND_Y - MAX_JUMP_HEIGHT, MAX_PLATFORM_Y]. *)
C12_ReachableHeights ==
    ev.start = "from_ground" =>
        LET obs == state.obstacles
        IN  /\ \A i \in 1..Len(obs) :
                  obs[i].y >= MIN_PLATFORM_Y /\ obs[i].y <= MAX_PLATFORM_Y
            /\ \A i \in 2..Len(obs) :
                  /\ obs[i - 1].y - obs[i].y <= MAX_JUMP_HEIGHT
                  /\ obs[i].y - obs[i - 1].y <= MAX_HEIGHT_DIFF
            /\ obs[1].y >= GROUND_Y - MAX_JUMP_HEIGHT
            /\ obs[1].y <= MAX_PLATFORM_Y

(* A full chain from the ground that climbs by MAX_JUMP_HEIGHT in one step *)
C12_Witness ==
    /\ ev.start = "from_ground"
    /\ Len(state.obstacles) = MaxChain
    /\ \E i \in 2..Len(state.obstacles) :
          state.obstacles[i - 1].y - state.obstacles[i].y = MAX_JUMP_HEIGHT

-----------------------------------------------------------------------------
(* The speed and gap functions on their own: get_min_gap and
   get_scroll_speed called with arguments drawn from bounded sets, and one
   obstacle chained at the speed drawn. ev records the call (kind), its
   argument b and result fb, and the argument a and result fa of the call of
   the same function before it (the same call again when there was none). *)

FnSpeeds ==
    {k * FnSpeedStep : k \in 0..((MaxFnSpeed * XS) \div FnSpeedStep)}
        \cup {BASE_SCROLL_SPEED * XS, MAX_SCROLL_SPEED * XS}

(* The scores the tests call get_scroll_speed with *)
ScoreSamples == {0, 1, 5, 10, 159, 160, 170, 1000}

PlaySpeeds ==
    {s \in FnSpeeds : s >= BASE_SCROLL_SPEED * XS /\ s <= MAX_SCROLL_SPEED * XS}

FnEvent(kind, a, fa, b, fb) ==
    [kind |-> kind, a |-> a, fa |-> fa, b |-> b, fb |-> fb]

(* The call of kind with argument x and result fx, after the call in ev *)
AfterCall(kind, x, fx) ==
    IF ev.kind = kind THEN FnEvent(kind, ev.b, ev.fb, x, fx)
    ELSE FnEvent(kind, x, fx, x, fx)

CalcInit ==
    /\ state = [reset_game(0, AbsentFile) EXCEPT !.obstacles = << >>]
    /\ file = AbsentFile
    /\ rng = 0
    /\ space_down = FALSE
    /\ ticks = 0
    /\ dead_ticks = 0
    /\ cuts = 0
    /\ held = 0
    /\ resets = 0
    /\ spawned = 0
    /\ ev = FnEvent("init", 0, 0, 0, 0)

CalcFrame == <<file, rng, space_down, ticks, dead_ticks, cuts, held, resets, spawned>>

MinGapCall ==
    /\ \E speed \in FnSpeeds : ev' = AfterCall("min_gap", speed, get_min_gap(speed))
    /\ state' = [state EXCEPT !.obstacles = << >>]
    /\ UNCHANGED CalcFrame

(* Successive scores, as a run passes through them, and the sampled ones *)
ScrollSpeedCall ==
    /\ \E score \in ScoreSamples
                      \cup (IF ev.kind = "scroll_speed" /\ ev.b < MaxFnScore
                            THEN {ev.b + 1} ELSE {}) :
          ev' = AfterCall("scroll_speed", score, get_scroll_speed(score))
    /\ state' = [state EXCEPT !.obstacles = << >>]
    /\ UNCHANGED CalcFrame

(* An obstacle chained to a from-ground obstacle at a speed of play *)
ChainedCall ==
    /\ \E speed \in PlaySpeeds, r \in GenPositions :
        LET first == generate_obstacle(<< >>, TRUE, speed, 0)
        IN  /\ state' = [state EXCEPT !.obstacles =
                            <<first, generate_obstacle(<<first>>, FALSE, speed, r)>>]
            /\ ev' = FnEvent("chained", speed, get_min_gap(speed),
                             speed, get_min_gap(speed))
    /\ UNCHANGED CalcFrame

CalcNext == MinGapCall \/ ScrollSpeedCall \/ ChainedCall

SpecCalc == CalcInit /\ [][CalcNext]_vars

-----------------------------------------------------------------------------
(* Properties of the speed and gap functions, read on SpecCalc *)

(* C13: get_min_gap is non-decreasing in the speed, never below MIN_GAP,
   MIN_GAP at BASE_SCROLL_SPEED, and larger at MAX_SCROLL_SPEED than at
   BASE_SCROLL_SPEED. *)
C13_MinGapMonotone ==
    ev.kind = "min_gap" =>
        /\ ev.a <= ev.b => ev.fa <= ev.fb
        /\ ev.b <= ev.a => ev.fb <= ev.fa
        /\ ev.fb >= MIN_GAP
        /\ ev.b = BASE_SCROLL_SPEED * XS => ev.fb = MIN_GAP
        /\ (ev.a = BASE_SCROLL_SPEED * XS /\ ev.b = MAX_SCROLL_SPEED * XS) =>
               ev.fb > ev.fa

(* get_min_gap at BASE_SCROLL_SPEED, then at MAX_SCROLL_SPEED *)
C13_Witness ==
    /\ ev.kind = "min_gap"
    /\ ev.a = BASE_SCROLL_SPEED * XS
    /\ ev.b = MAX_SCROLL_SPEED * XS
    /\ ev.fa = MIN_GAP
    /\ ev.fb > MAX_GAP

(* speed * MIN_JUMP_FRAMES - MIN_OBSTACLE_WIDTH + GAP_BUFFER for the speed of
   the call in ev, in 1/XS pixel *)
RequiredGap == ev.b * MIN_JUMP_FRAMES - (MIN_OBSTACLE_WIDTH - GAP_BUFFER) * XS

(* C14, as claimed: get_min_gap(speed) is max(MIN_GAP, ceil(speed *
   MIN_JUMP_FRAMES - MIN_OBSTACLE_WIDTH + GAP_BUFFER)): the least whole
   number of pixels that is not below the required gap, or MIN_GAP. *)
C14_MinGapCeil ==
    ev.kind = "min_gap" =>
        IF RequiredGap <= MIN_GAP * XS
        THEN ev.fb = MIN_GAP
        ELSE ev.fb * XS >= RequiredGap /\ (ev.fb - 1) * XS < RequiredGap

(* C14, amended: get_min_gap(speed) is max(MIN_GAP, the required gap with
   its fraction dropped): the largest whole number of pixels that is not
   above the required gap, or MIN_GAP. *)
C14_MinGapTruncates ==
    ev.kind = "min_gap" =>
        IF RequiredGap < (MIN_GAP + 1) * XS
        THEN ev.fb = MIN_GAP
        ELSE ev.fb * XS <= RequiredGap /\ (ev.fb + 1) * XS > RequiredGap

(* get_min_gap at a speed whose required gap is above MIN_GAP and not whole *)
C14_Witness ==
    /\ ev.kind = "min_gap"
    /\ RequiredGap > (MIN_GAP + 1) * XS
    /\ RequiredGap % XS # 0
    /\ ev.b < MAX_SCROLL_SPEED * XS
    /\ ev.fb * XS < RequiredGap

(* C15: at every speed from BASE_SCROLL_SPEED to MAX_SCROLL_SPEED,
   get_min_gap(speed) + MIN_OBSTACLE_WIDTH is at least speed *
   MIN_JUMP_FRAMES, and an obstacle chained at that speed has gap + width
   above speed * MIN_JUMP_FRAMES - GAP_BUFFER. *)
C15_GapCoversMinimumJump ==
    /\ (ev.kind \in {"min_gap", "chained"}
          /\ ev.b >= BASE_SCROLL_SPEED * XS /\ ev.b <= MAX_SCROLL_SPEED * XS) =>
           (ev.fb + MIN_OBSTACLE_WIDTH) * XS >= ev.b * MIN_JUMP_FRAMES
    /\ ev.kind = "chained" =>
           LastGap + state.obstacles[2].width * XS
               > ev.b * MIN_JUMP_FRAMES - GAP_BUFFER * XS

(* An obstacle of the least width chained at MAX_SCROLL_SPEED *)
C15_Witness ==
    /\ ev.kind = "chained"
    /\ ev.b = MAX_SCROLL_SPEED * XS
    /\ state.obstacles[2].width = MIN_OBSTACLE_WIDTH
    /\ LastGap = ev.fb * XS

(* C16: get_scroll_speed is non-decreasing in the score, BASE_SCROLL_SPEED
   at score 0, larger by SPEED_INCREMENT at n + 1 than at n for n below the
   cap, never above MAX_SCROLL_SPEED, and MAX_SCROLL_SPEED from the score
   (MAX_SCROLL_SPEED - BASE_SCROLL_SPEED) / SPEED_INCREMENT on. *)
C16_ScrollSpeed ==
    ev.kind = "scroll_speed" =>
        LET cap == (MAX_SCROLL_SPEED - BASE_SCROLL_SPEED) * SPEED_INCREMENT_INV
        IN  /\ ev.a <= ev.b => ev.fa <= ev.fb
            /\ ev.b <= ev.a => ev.fb <= ev.fa
            /\ ev.b = 0 => ev.fb = BASE_SCROLL_SPEED * XS
            /\ (ev.b = ev.a + 1 /\ ev.a < cap) =>
                   ev.fb * SPEED_INCREMENT_INV = ev.fa * SPEED_INCREMENT_INV + XS
            /\ ev.fb <= MAX_SCROLL_SPEED * XS
            /\ ev.b >= cap => ev.fb = MAX_SCROLL_SPEED * XS

(* The last step up to the cap: the score before it, then the score at it *)
C16_Witness ==
    /\ ev.kind = "scroll_speed"
    /\ ev.b = ev.a + 1
    /\ ev.b = (MAX_SCROLL_SPEED - BASE_SCROLL_SPEED) * SPEED_INCREMENT_INV
    /\ ev.fb = MAX_SCROLL_SPEED * XS
    /\ ev.fa < ev.fb

-----------------------------------------------------------------------------
(* The landing test on its own: check_obstacle_collision called with the
   player and one obstacle placed at, next to and away from every edge the
   test compares. ev records the arguments and the result (hit). *)

(* The obstacle of the calls: its top, in pixels, and the last position of
   its landing zone, in 1/YS pixel *)
HitTop == MAX_PLATFORM_Y - MAX_HEIGHT_DIFF
HitZoneEnd == (HitTop + OBSTACLE_THICKNESS + LANDING_TOLERANCE) * YS

HitOffsets == (-HitEdge)..HitEdge

(* Where the obstacle begins, in 1/XS pixel: around the player's right edge,
   with its own right edge around the player's left edge, and under the
   player *)
HitObstacleXs ==
    {(PLAYER_X + PLAYER_WIDTH) * XS + d : d \in HitOffsets}
        \cup {(PLAYER_X - MIN_OBSTACLE_WIDTH) * XS + d : d \in HitOffsets}
        \cup {PLAYER_X * XS}

(* Where the player's bottom edge is, in 1/YS pixel: around the obstacle's
   top, around the end of the landing zone, high above, inside the zone and
   far below *)
HitBottoms ==
    {HitTop * YS + d : d \in HitOffsets}
        \cup {HitZoneEnd + d : d \in HitOffsets}
        \cup {(HitTop - MAX_JUMP_HEIGHT) * YS,
              (HitTop + OBSTACLE_THICKNESS) * YS,
              GROUND_Y * YS}

HitEvent(kind, player_x, player_y, prev_player_y, obstacle, hit) ==
    [kind |-> kind, player_x |-> player_x, player_y |-> player_y,
     prev_player_y |-> prev_player_y, obstacle |-> obstacle, hit |-> hit]

HitInit ==
    /\ state = [reset_game(0, AbsentFile) EXCEPT !.obstacles = << >>]
    /\ file = AbsentFile
    /\ rng = 0
    /\ space_down = FALSE
    /\ ticks = 0
    /\ dead_ticks = 0
    /\ cuts = 0
    /\ held = 0
    /\ resets = 0
    /\ spawned = 0
    /\ ev = HitEvent("init", PLAYER_X, 0, 0,
                     Obstacle(0, HitTop, MIN_OBSTACLE_WIDTH, OBSTACLE_THICKNESS,
                              FALSE),
                     FALSE)

CollisionCall ==
    /\ \E x \in HitObstacleXs, bottom \in HitBottoms, prev_bottom \in HitBottoms :
        LET obstacle == Obstacle(x, HitTop, MIN_OBSTACLE_WIDTH,
                                 OBSTACLE_THICKNESS, FALSE)
            player_y == bottom - PLAYER_HEIGHT * YS
            prev_player_y == prev_bottom - PLAYER_HEIGHT * YS
        IN  ev' = HitEvent("collision", PLAYER_X, player_y, prev_player_y,
                           obstacle,
                           check_obstacle_collision(PLAYER_X, player_y,
                                                    prev_player_y, obstacle))
    /\ UNCHANGED <<state, file, rng, space_down, ticks, dead_ticks, cuts, held,
                   resets, spawned>>

HitNext == CollisionCall

SpecCollide == HitInit /\ [][HitNext]_vars

-----------------------------------------------------------------------------
(* Properties of the landing test, read on SpecCollide *)

(* C17: check_obstacle_collision is true exactly when the player's extent
   strictly overlaps the obstacle's horizontally and either the bottom edge
   went from at or above the top to at or below it, or the bottom edge is
   between the top and the bottom plus LANDING_TOLERANCE. A fall past the
   whole obstacle in one frame is a landing; no horizontal overlap, a
   player wholly above the top, and a player that began below the top and
   is past the zone are not. *)
C17_LandingTest ==
    ev.kind = "collision" =>
        LET current_bottom == ev.player_y + PLAYER_HEIGHT * YS
            prev_bottom == ev.prev_player_y + PLAYER_HEIGHT * YS
            top == ev.obstacle.y * YS
            zone_end == (ev.obstacle.y + ev.obstacle.height
                           + LANDING_TOLERANCE) * YS
            overlap == /\ (ev.player_x + PLAYER_WIDTH) * XS > ev.obstacle.x
                       /\ ev.player_x * XS
                              < ev.obstacle.x + ev.obstacle.width * XS
            crossed == prev_bottom <= top /\ current_bottom >= top
            in_zone == current_bottom >= top /\ current_bottom <= zone_end
        IN  /\ ev.hit <=> (overlap /\ (crossed \/ in_zone))
            /\ (overlap /\ prev_bottom <= top /\ current_bottom > zone_end) =>
                   ev.hit
            /\ ~overlap => ~ev.hit
            /\ current_bottom < top => ~ev.hit
            /\ (prev_bottom > top /\ current_bottom > zone_end) => ~ev.hit

(* A fall, in one frame, from above the obstacle to below its landing zone *)
C17_Witness ==
    /\ ev.kind = "collision"
    /\ ev.hit
    /\ ev.prev_player_y + PLAYER_HEIGHT * YS < ev.obstacle.y * YS
    /\ ev.player_y + PLAYER_HEIGHT * YS
           > (ev.obstacle.y + ev.obstacle.height + LANDING_TOLERANCE) * YS

-----------------------------------------------------------------------------
(* One jump from the ground, with no obstacle: the space key goes down and
   up between the frames of main(), game.py 709-816 *)

(* The unit YS carries one more halving than MaxCuts, gravity and the
   impulse being multiples of 2 / YS *)
JumpCuts == MaxCuts + 1

(* What the run has seen of the jump: in_jump, the impulse was applied and
   the player has not come back to the launch height; frames, the frames run
   since the impulse; rise, the highest point reached above the launch
   height, in 1/YS pixel; ncuts, the releases that cut the velocity;
   first_cut, the frames run before the first of them; presses, the key
   presses since the impulse, it included (2 stands for two or more);
   done, the player is back at the launch height *)
JumpEvent(kind, in_jump, frames, rise, ncuts, first_cut, presses, done) ==
    [kind |-> kind, in_jump |-> in_jump, frames |-> frames, rise |-> rise,
     ncuts |-> ncuts, first_cut |-> first_cut, presses |-> presses,
     done |-> done]

JumpInit ==
    /\ state = [reset_game(0, AbsentFile) EXCEPT !.obstacles = << >>]
    /\ file = AbsentFile
    /\ rng = 0
    /\ space_down = FALSE
    /\ ticks = 0
    /\ dead_ticks = 0
    /\ cuts = 0
    /\ held = 0
    /\ resets = 0
    /\ spawned = 0
    /\ ev = JumpEvent("init", FALSE, 0, 0, 0, 0, 0, FALSE)

JumpFrame == <<file, rng, dead_ticks, held, resets, spawned>>

(* KEYDOWN K_SPACE, game.py 715-725 *)
JumpPress ==
    /\ ~space_down
    /\ (~state.game_over /\ ~state.is_jumping) => ticks <= MaxIdleTicks
    /\ space_down' = TRUE
    /\ state' = SpaceDown(state)
    /\ ev' = IF ~state.game_over /\ ~state.is_jumping
             THEN JumpEvent("press", TRUE, 0, 0, 0, 0, 1, FALSE)
             ELSE [ev EXCEPT !.kind = "press",
                             !.presses = IF ev.in_jump
                                         THEN Min(ev.presses + 1, 2)
                                         ELSE ev.presses]
    /\ UNCHANGED <<ticks, cuts>>
    /\ UNCHANGED JumpFrame

(* KEYUP K_SPACE, game.py 736-741 *)
JumpRelease ==
    /\ space_down
    /\ state.player_velocity_y < 0 => cuts < JumpCuts
    /\ space_down' = FALSE
    /\ state' = SpaceUp(state)
    /\ cuts' = IF state.player_velocity_y < 0 THEN cuts + 1 ELSE cuts
    /\ ev' = IF ev.in_jump /\ state.player_velocity_y < 0
             THEN [ev EXCEPT !.kind = "release",
                             !.ncuts = ev.ncuts + 1,
                             !.first_cut = IF ev.ncuts = 0 THEN ev.frames
                                           ELSE ev.first_cut]
             ELSE [ev EXCEPT !.kind = "release"]
    /\ UNCHANGED ticks
    /\ UNCHANGED JumpFrame

(* The frame, game.py 743-816 *)
JumpTick ==
    /\ ~state.game_over
    /\ ticks < MaxJumpTicks
    /\ LET c == RunFrame(StartFrame(state, rng, file, spawned), "ok")
           launch == (GROUND_Y - PLAYER_HEIGHT) * YS
       IN  /\ state' = c.s
           /\ ev' = IF ev.in_jump
                    THEN [ev EXCEPT !.kind = "tick",
                                    !.frames = ev.frames + 1,
                                    !.rise = Max(ev.rise, launch - c.s.player_y),
                                    !.in_jump = ~c.clamped,
                                    !.done = c.clamped]
                    ELSE [ev EXCEPT !.kind = "tick"]
    /\ ticks' = ticks + 1
    /\ UNCHANGED <<space_down, cuts>>
    /\ UNCHANGED JumpFrame

JumpNext == JumpPress \/ JumpRelease \/ JumpTick

SpecJump == JumpInit /\ [][JumpNext]_vars

-----------------------------------------------------------------------------
(* Properties of the jump, read on SpecJump *)

(* C23, as claimed: whatever the presses and releases, the player is back at
   the launch height no sooner than MIN_JUMP_FRAMES frames after the
   impulse, and exactly MIN_JUMP_FRAMES frames after it when the one press
   was released before the next frame. *)
C23_NoJumpShorterThanTap ==
    ev.done =>
        /\ ev.frames >= MIN_JUMP_FRAMES
        /\ (ev.presses = 1 /\ ev.ncuts = 1 /\ ev.first_cut = 0) =>
               ev.frames = MIN_JUMP_FRAMES

(* C24: a press of the space key in a running game does one of two
   things. With is_jumping false it sets the velocity to JUMP_STRENGTH and
   is_jumping, jump_held and has_jumped to true, and nothing else; with
   is_jumping true it sets jump_buffered and nothing else. *)
C24_PressJumpsOrBuffers ==
    [][(ev'.kind = "press" /\ ~state.game_over) =>
           IF ~state.is_jumping
           THEN /\ state' = [state EXCEPT
                                !.player_velocity_y = JUMP_STRENGTH * YS,
                                !.is_jumping = TRUE,
                                !.jump_held = TRUE,
                                !.has_jumped = TRUE]
                /\ state'.jump_buffered = state.jump_buffered
                /\ state'.player_y = state.player_y
           ELSE /\ state' = [state EXCEPT !.jump_buffered = TRUE]
                /\ state'.player_velocity_y = state.player_velocity_y
                /\ state'.player_y = state.player_y
                /\ state'.is_jumping
                /\ state'.jump_held = state.jump_held
                /\ state'.has_jumped = state.has_jumped]_vars

(* A press in the air, after the release of the press that made the jump:
   the jump is buffered, the velocity is the one the frames left *)
C24_Witness ==
    /\ ev.kind = "press"
    /\ ev.in_jump
    /\ ev.frames >= 1
    /\ ev.presses = 2
    /\ state.jump_buffered
    /\ ~state.jump_held
    /\ state.player_velocity_y # JUMP_STRENGTH * YS

(* C25: a release of the space key clears jump_held; it multiplies the
   velocity by JUMP_CUT_MULTIPLIER when the velocity is negative, leaves a
   zero or positive velocity alone, and changes no other field. *)
C25_ReleaseCutsRisingJump ==
    [][ev'.kind = "release" =>
           /\ ~state'.jump_held
           /\ state' = [state EXCEPT
                           !.jump_held = FALSE,
                           !.player_velocity_y = state'.player_velocity_y]
           /\ IF state.player_velocity_y < 0
              THEN state'.player_velocity_y * JUMP_CUT_DIVISOR
                       = state.player_velocity_y
              ELSE state'.player_velocity_y = state.player_velocity_y]_vars

(* A release on the way down, which cuts nothing, in a jump that an earlier
   release has cut on the way up *)
C25_Witness ==
    /\ ev.kind = "release"
    /\ ev.in_jump
    /\ ev.ncuts = 1
    /\ state.player_velocity_y > 0
    /\ ~state.jump_held

(* The peak of a jump nobody cuts, as test_jump_reaches_expected_height
   computes it: the largest rise above the start, in 1/YS pixel *)
RECURSIVE JumpRise(_, _, _)
JumpRise(velocity, position, max_height) ==
    IF velocity < 0 \/ position < 0
    THEN LET v == velocity + GRAVITY
             p == position + v
         IN  JumpRise(v, p, Min(max_height, p))
    ELSE -max_height

FullRise == JumpRise(JUMP_STRENGTH * YS, 0, 0)

(* C28, as claimed: a jump that no release cuts peaks between 0.8 and 1.5
   times MAX_JUMP_HEIGHT and is back at the launch height in fewer than 200
   frames; a jump whose rising velocity a release has cut peaks strictly
   lower than that. *)
C28_CutJumpPeaksLower ==
    ev.done =>
        /\ ev.ncuts = 0 =>
               /\ 10 * ev.rise >= 8 * MAX_JUMP_HEIGHT * YS
               /\ 10 * ev.rise <= 15 * MAX_JUMP_HEIGHT * YS
               /\ ev.frames < 200
        /\ ev.ncuts >= 1 => ev.rise < FullRise

(* C28, amended: a jump that no release cuts peaks between 0.8 and 1.5
   times MAX_JUMP_HEIGHT and is back at the launch height in fewer than 200
   frames; a jump whose rising velocity a release has cut peaks no higher
   than that, and strictly lower when the first cut came while the velocity
   was below -GRAVITY, that is, before the last rising frame. *)
C28_CutBeforeLastRisingFramePeaksLower ==
    ev.done =>
        /\ ev.ncuts = 0 =>
               /\ ev.rise = FullRise
               /\ 10 * ev.rise >= 8 * MAX_JUMP_HEIGHT * YS
               /\ 10 * ev.rise <= 15 * MAX_JUMP_HEIGHT * YS
               /\ ev.frames < 200
        /\ ev.ncuts >= 1 =>
               /\ ev.rise <= FullRise
               /\ JUMP_STRENGTH * YS + (ev.first_cut + 1) * GRAVITY < 0 =>
                      ev.rise < FullRise

(* The end of a jump that a release cut in its last rising frame: it
   peaked as high as a jump nobody cuts *)
C28_Witness ==
    /\ ev.done
    /\ ev.ncuts = 1
    /\ JUMP_STRENGTH * YS + ev.first_cut * GRAVITY < 0
    /\ JUMP_STRENGTH * YS + (ev.first_cut + 1) * GRAVITY >= 0
    /\ ev.rise = FullRise


-----------------------------------------------------------------------------
(* The obstacles of a run in which the player stays on the ground and no
   key is pressed: main(), game.py 743-812, frame after frame *)

(* The generator positions such a run starts from: every position of the
   cycle *)
ScrollSeeds == 0..(Len(Pattern) - 1)

(* What the last frame did to the obstacles: removed, it dropped the front
   one; appended, it added one at the end *)
ScrollEvent(kind, removed, appended) ==
    [kind |-> kind, removed |-> removed, appended |-> appended]

ScrollInit ==
    \E seed \in ScrollSeeds :
        /\ state = reset_game(seed, AbsentFile)
        /\ file = AbsentFile
        /\ rng = Advance(seed, ResetDraws)
        /\ space_down = FALSE
        /\ ticks = 0
        /\ dead_ticks = 0
        /\ cuts = 0
        /\ held = 0
        /\ resets = 0
        /\ spawned = INITIAL_OBSTACLE_COUNT + 1
        /\ ev = ScrollEvent("init", FALSE, FALSE)

ScrollTick ==
    /\ ticks < MaxScrollTicks
    /\ LET c == RunFrame(StartFrame(state, rng, file, spawned), "ok")
       IN  /\ state' = c.s
           /\ rng' = c.rng
           /\ spawned' = c.spawned
           /\ ev' = ScrollEvent("tick",
                                c.s.obstacles[1].id # state.obstacles[1].id,
                                c.spawned # spawned)
    /\ ticks' = ticks + 1
    /\ UNCHANGED <<file, space_down, dead_ticks, cuts, held, resets>>

ScrollNext == ScrollTick

SpecScroll == ScrollInit /\ [][ScrollNext]_vars

-----------------------------------------------------------------------------
(* Properties of the obstacle sequence, read on SpecScroll *)

(* The obstacles stand in strictly ascending x order, each at least MIN_GAP
   pixels behind the right edge of the one before *)
Spaced(obstacles) ==
    \A i \in 1..(Len(obstacles) - 1) :
        /\ obstacles[i].x < obstacles[i + 1].x
        /\ obstacles[i + 1].x - (obstacles[i].x + obstacles[i].width * XS)
               >= MIN_GAP * XS

(* C27: the obstacles are always in strictly ascending x order with gaps of
   MIN_GAP or more. A frame moves every obstacle left by the same amount
   and changes nothing else of it; it then drops the front obstacle, and
   only that one, exactly when its right edge is left of 0 after the
   scroll; it then appends one obstacle, chained from the last one, exactly
   when the last obstacle's x is less than SCREEN_WIDTH after the scroll. *)
C27_ObstacleSequence ==
    [][LET obs == state.obstacles
           speed == get_scroll_speed(state.score)
           front == obs[1]
           last == obs[Len(obs)]
           removed == front.x - speed + front.width * XS < 0
           kept == IF removed THEN Tail(obs) ELSE obs
           appended == last.x - speed < SCREEN_WIDTH * XS
           new == state'.obstacles[Len(state'.obstacles)]
       IN  /\ Spaced(obs)
           /\ Spaced(state'.obstacles)
           /\ obs # << >>
           /\ Len(state'.obstacles) = Len(kept) + (IF appended THEN 1 ELSE 0)
           /\ \A i \in 1..Len(kept) :
                  state'.obstacles[i] = [kept[i] EXCEPT !.x = kept[i].x - speed]
           /\ ev'.removed <=> removed
           /\ ev'.appended <=> appended
           /\ appended =>
                  /\ ~new.scored
                  /\ new.x - (last.x - speed + last.width * XS)
                         >= get_min_gap(speed) * XS
                  /\ new.x - (last.x - speed + last.width * XS)
                         <= Max(get_min_gap(speed), MAX_GAP) * XS
                  /\ new.y >= Max(MIN_PLATFORM_Y, last.y - MAX_JUMP_HEIGHT)
                  /\ new.y <= Min(MAX_PLATFORM_Y, last.y + MAX_HEIGHT_DIFF)]_vars

(* The frame that drops the front obstacle, in a run whose frames have
   appended obstacles to the chain reset_game built *)
C27_Witness ==
    /\ ev.kind = "tick"
    /\ ev.removed
    /\ spawned > INITIAL_OBSTACLE_COUNT + 1
    /\ state.obstacles[1].id = 2
    /\ Len(state.obstacles) > INITIAL_OBSTACLE_COUNT


(* C34: while the run is not over the obstacle sequence is never empty,
   and at the end of every frame the last obstacle's x is SCREEN_WIDTH or
   more: the one obstacle a frame may append always lands beyond the right
   screen edge. *)
C34_ObstacleBeyondScreen ==
    ~state.game_over =>
        /\ state.obstacles # << >>
        /\ state.obstacles[Len(state.obstacles)].x >= SCREEN_WIDTH * XS

(* The frame in which the last obstacle came on screen and one obstacle
   was appended behind it, beyond the right edge *)
C34_Witness ==
    /\ ev.kind = "tick"
    /\ ev.appended
    /\ ~state.game_over
    /\ Len(state.obstacles) >= 2
    /\ state.obstacles[Len(state.obstacles) - 1].x < SCREEN_WIDTH * XS
    /\ state.obstacles[Len(state.obstacles)].x >= SCREEN_WIDTH * XS

(* The obstacles whose horizontal extent meets the player's,
   [PLAYER_X, PLAYER_X + PLAYER_WIDTH] *)
OverPlayer(obstacles) ==
    {i \in 1..Len(obstacles) :
        /\ obstacles[i].x <= (PLAYER_X + PLAYER_WIDTH) * XS
        /\ obstacles[i].x + obstacles[i].width * XS >= PLAYER_X * XS}

(* C35: at most one obstacle horizontally overlaps the player's extent, so
   at most one obstacle can pass the horizontal test of the landing check
   in a frame. *)
C35_OneObstacleOverPlayer ==
    Cardinality(OverPlayer(state.obstacles)) <= 1

(* An obstacle overlaps the player while the one before it is still in the
   sequence, less than PLAYER_WIDTH + MIN_GAP to the left of the player's
   right edge *)
C35_Witness ==
    /\ ev.kind = "tick"
    /\ OverPlayer(state.obstacles) = {2}
    /\ state.obstacles[1].x + state.obstacles[1].width * XS
           > (PLAYER_X - MIN_GAP) * XS

-----------------------------------------------------------------------------
(* The debris alone: generate_debris called where the player died, then
   update_debris called on its list, game.py 763 and 814-816 *)

DebrisEvent(kind) == [kind |-> kind]

DebrisInit ==
    /\ state = [reset_game(0, AbsentFile) EXCEPT !.obstacles = << >>]
    /\ file = AbsentFile
    /\ rng = 0
    /\ space_down = FALSE
    /\ ticks = 0
    /\ dead_ticks = 0
    /\ cuts = 0
    /\ held = 0
    /\ resets = 0
    /\ spawned = 0
    /\ ev = DebrisEvent("init")

DebrisFrame == <<file, space_down, ticks, cuts, held, resets, spawned>>

(* The death on the ground, game.py 759-763, at any generator position *)
DebrisGenerate ==
    /\ state.debris = << >>
    /\ \E r \in 0..(Len(Pattern) - 1) :
        /\ state' = [state EXCEPT
                        !.has_jumped = TRUE,
                        !.game_over = TRUE,
                        !.debris = generate_debris(PLAYER_X,
                                                   state.player_y \div YS, r)]
        /\ rng' = Advance(r, DEBRIS_COUNT * DebrisDraws)
    /\ ev' = DebrisEvent("generate")
    /\ UNCHANGED dead_ticks
    /\ UNCHANGED DebrisFrame

(* update_debris(state.debris), game.py 815-816 *)
DebrisUpdate ==
    /\ state.game_over
    /\ state.debris # << >>
    /\ dead_ticks < MaxDebrisSteps
    /\ state' = [state EXCEPT !.debris = update_debris(state.debris)]
    /\ dead_ticks' = dead_ticks + 1
    /\ ev' = DebrisEvent("update")
    /\ UNCHANGED rng
    /\ UNCHANGED DebrisFrame

DebrisNext == DebrisGenerate \/ DebrisUpdate

SpecDebris == DebrisInit /\ [][DebrisNext]_vars

-----------------------------------------------------------------------------
(* Properties of update_debris, read on SpecDebris *)

(* C29: after a step of update_debris every particle has y + size at most
   GROUND_Y and a bounce counter no smaller than before. A step in which
   the particle reaches the ground puts it on the ground, counts a bounce
   and turns its vel_y, as it stands after this step's gravity, into
   -DEBRIS_BOUNCE_DAMPING times itself, or into 0 when that rebound is
   smaller than 1; every step multiplies vel_x by DEBRIS_FRICTION. The
   velocities are kept to 1/DS pixel. *)
C29_DebrisStep ==
    [][ev'.kind = "update" =>
        /\ Len(state'.debris) = Len(state.debris)
        /\ \A i \in 1..Len(state.debris) :
            LET d == state.debris[i]
                e == state'.debris[i]
                vy1 == d.vel_y + (DEBRIS_GRAVITY_PCT * DS) \div 100
                contact == d.y + vy1 + d.size * DS >= GROUND_Y * DS
            IN  /\ e.y + e.size * DS <= GROUND_Y * DS
                /\ e.bounces >= d.bounces
                /\ e.size = d.size
                /\ Abs(100 * e.vel_x - DEBRIS_FRICTION_PCT * d.vel_x) < 100
                /\ Abs(e.vel_x) <= Abs(d.vel_x)
                /\ e.x = d.x + e.vel_x
                /\ contact =>
                       /\ e.y = (GROUND_Y - e.size) * DS
                       /\ e.bounces = d.bounces + 1
                       /\ IF DEBRIS_BOUNCE_DAMPING_PCT * Abs(vy1) < 100 * DS
                          THEN e.vel_y = 0
                          ELSE /\ Abs(100 * e.vel_y
                                        + DEBRIS_BOUNCE_DAMPING_PCT * vy1) < 100
                               /\ e.vel_y * vy1 < 0
                /\ ~contact =>
                       /\ e.y = d.y + vy1
                       /\ e.vel_y = vy1
                       /\ e.bounces = d.bounces]_vars

(* A step in which a falling particle hit the ground for the first time
   and rebounds *)
C29_Witness ==
    /\ ev.kind = "update"
    /\ \E i \in 1..Len(state.debris) :
           /\ state.debris[i].bounces = 1
           /\ state.debris[i].vel_y <= -1 * DS
           /\ state.debris[i].y = (GROUND_Y - state.debris[i].size) * DS


(* A particle at rest on the ground: y + size = GROUND_Y and vel_y = 0 *)
Settled(d) == d.y + d.size * DS = GROUND_Y * DS /\ d.vel_y = 0

(* C40: once a debris particle has settled (it lies on the ground with
   y + size = GROUND_Y and its vel_y zeroed) a later step of update_debris
   no longer changes its bounce counter. *)
C40_SettledBouncesConstant ==
    [][ev'.kind = "update" =>
        \A i \in 1..Len(state.debris) :
            Settled(state.debris[i]) =>
                state'.debris[i].bounces = state.debris[i].bounces]_vars


-----------------------------------------------------------------------------
(* A fall from a high platform onto the lowest one: the frames of main()
   from a state in the middle of a run. The player stands on a scored
   platform with its top at y = top; the next platform is MAX_HEIGHT_DIFF
   lower and the one after it has its top at MAX_PLATFORM_Y, each MIN_GAP
   behind the one before, as generate_obstacle may draw them; behind them
   the chain goes on beyond the right screen edge. *)

FallStep(top) ==
    <<WithId(Obstacle(86 * XS, top, MIN_OBSTACLE_WIDTH,
                      OBSTACLE_THICKNESS, TRUE), 1),
      WithId(Obstacle((86 + MIN_OBSTACLE_WIDTH + MIN_GAP) * XS,
                      top + MAX_HEIGHT_DIFF, MIN_OBSTACLE_WIDTH,
                      OBSTACLE_THICKNESS, FALSE), 2),
      WithId(Obstacle((86 + 2 * (MIN_OBSTACLE_WIDTH + MIN_GAP)) * XS,
                      MAX_PLATFORM_Y, MAX_OBSTACLE_WIDTH,
                      OBSTACLE_THICKNESS, FALSE), 3)>>

(* The chain extended by generate_obstacle, at the speed of the score,
   until its last obstacle is at SCREEN_WIDTH or beyond, as the frames
   before have left it *)
RECURSIVE ExtendChain(_, _, _)
ExtendChain(obstacles, r, score) ==
    IF obstacles[Len(obstacles)].x >= SCREEN_WIDTH * XS
    THEN obstacles
    ELSE ExtendChain(
             Append(obstacles,
                    WithId(generate_obstacle(<<obstacles[Len(obstacles)]>>,
                                             FALSE, get_scroll_speed(score), r),
                           Len(obstacles) + 1)),
             Advance(r, ObstacleDraws), score)

FallEvent(kind, clamped, landed) ==
    [kind |-> kind, clamped |-> clamped, landed |-> landed]

FallInit ==
    \E top \in MinFallTop..MaxFallTop :
        LET chain == ExtendChain(FallStep(top), 0, 1)
        IN  /\ state = [reset_game(0, AbsentFile) EXCEPT
                            !.player_y = (top - PLAYER_HEIGHT) * YS,
                            !.has_jumped = TRUE,
                            !.score = 1,
                            !.obstacles = chain]
            /\ file = AbsentFile
            /\ rng = Advance(0, (Len(chain) - 3) * ObstacleDraws)
            /\ space_down = FALSE
            /\ ticks = 0
            /\ dead_ticks = 0
            /\ cuts = 0
            /\ held = 0
            /\ resets = 0
            /\ spawned = Len(chain)
            /\ ev = FallEvent("init", FALSE, 0)

(* KEYDOWN K_SPACE, game.py 715-725, with the player on a surface; the key
   is then held *)
FallPress ==
    /\ ~space_down
    /\ ~state.game_over
    /\ ~state.is_jumping
    /\ state.player_velocity_y = 0
    /\ space_down' = TRUE
    /\ state' = SpaceDown(state)
    /\ ev' = FallEvent("press", FALSE, 0)
    /\ UNCHANGED <<file, rng, ticks, dead_ticks, cuts, held, resets, spawned>>

(* The frame, game.py 743-816 *)
FallTick ==
    /\ IF state.game_over THEN dead_ticks < MaxDeadTicks
       ELSE ticks < MaxFallTicks
    /\ LET c == RunFrame(StartFrame(state, rng, file, spawned), "ok")
       IN  /\ state' = c.s
           /\ file' = c.file
           /\ rng' = c.rng
           /\ spawned' = c.spawned
           /\ ev' = FallEvent("tick", c.clamped, c.landed)
    /\ ticks' = ticks + 1
    /\ dead_ticks' = IF state.game_over THEN dead_ticks + 1 ELSE dead_ticks
    /\ UNCHANGED <<space_down, cuts, held, resets>>

FallNext == FallPress \/ FallTick

SpecFall == FallInit /\ [][FallNext]_vars

-----------------------------------------------------------------------------
(* Properties of the landing, read on SpecFall *)

(* C31: whenever, in a frame, the falling player's bottom edge crosses the
   top plane of a horizontally overlapping obstacle (previous bottom <=
   obstacle top <= bottom after the frame's gravity), the frame ends with
   the player standing on that obstacle (player_y = obstacle.y -
   PLAYER_HEIGHT, velocity 0) and the run not over, also when the same step
   carries the player down to the ground line. *)
C31_CrossingLands ==
    [][(ev'.kind = "tick" /\ ~state.game_over) =>
        LET v == state.player_velocity_y + GRAVITY
            prev_bottom == state.player_y + PLAYER_HEIGHT * YS
            bottom == state.player_y + v + PLAYER_HEIGHT * YS
        IN  \A i \in 1..Len(state.obstacles) :
                LET o == state.obstacles[i]
                IN  (/\ v >= 0
                     /\ (PLAYER_X + PLAYER_WIDTH) * XS > o.x
                     /\ PLAYER_X * XS < o.x + o.width * XS
                     /\ prev_bottom <= o.y * YS
                     /\ o.y * YS <= bottom)
                    => /\ state'.player_y = (o.y - PLAYER_HEIGHT) * YS
                       /\ state'.player_velocity_y = 0
                       /\ ~state'.game_over]_vars


-----------------------------------------------------------------------------
(* A run taken up at a high score: the frames and key events of main() from
   a state in the middle of a run. The player stands on the left end of a
   scored platform; the obstacles behind it are drawn by generate_obstacle
   at the speed of the score, up to the right screen edge. *)

RunScores == {MinRunScore, MaxRunScore}

RunChain(score, r) ==
    LET first == generate_obstacle(<< >>, TRUE, get_scroll_speed(score), r)
    IN  ExtendChain(<<WithId([first EXCEPT !.x = PLAYER_X * XS,
                                           !.scored = TRUE], 1)>>,
                    Advance(r, ObstacleDraws), score)

(* base: the scored obstacles removed before the run is taken up; gone:
   those removed since; landed: the id the frame landed on, or 0 *)
RunEvent(kind, landed, base, gone) ==
    [kind |-> kind, landed |-> landed, base |-> base, gone |-> gone]

RunInit ==
    \E score \in RunScores, seed \in ScrollSeeds :
        LET chain == RunChain(score, seed)
        IN  /\ state = [reset_game(0, AbsentFile) EXCEPT
                            !.player_y = (chain[1].y - PLAYER_HEIGHT) * YS,
                            !.has_jumped = TRUE,
                            !.score = score,
                            !.obstacles = chain]
            /\ file = AbsentFile
            /\ rng = Advance(seed, Len(chain) * ObstacleDraws)
            /\ space_down = FALSE
            /\ ticks = 0
            /\ dead_ticks = 0
            /\ cuts = 0
            /\ held = 0
            /\ resets = 0
            /\ spawned = Len(chain)
            /\ ev = RunEvent("init", 0, score - 1, 0)

RunFrameVars == <<file, rng, ticks, dead_ticks, cuts, held, resets, spawned>>

(* KEYDOWN K_SPACE, game.py 715-725 *)
RunPress ==
    /\ ~space_down
    /\ ~state.game_over
    /\ space_down' = TRUE
    /\ state' = SpaceDown(state)
    /\ ev' = [ev EXCEPT !.kind = "press", !.landed = 0]
    /\ UNCHANGED RunFrameVars

(* KEYUP K_SPACE, game.py 736-741, once the player no longer rises *)
RunRelease ==
    /\ space_down
    /\ state.player_velocity_y >= 0
    /\ space_down' = FALSE
    /\ state' = SpaceUp(state)
    /\ ev' = [ev EXCEPT !.kind = "release", !.landed = 0]
    /\ UNCHANGED RunFrameVars

(* The frame, game.py 743-816 *)
RunTick ==
    /\ IF state.game_over THEN dead_ticks < MaxDeadTicks
       ELSE ticks < MaxRunTicks
    /\ LET c == RunFrame(StartFrame(state, rng, file, spawned), "ok")
           dropped == /\ c.s.obstacles[1].id # state.obstacles[1].id
                      /\ state.obstacles[1].scored
       IN  /\ state' = c.s
           /\ file' = c.file
           /\ rng' = c.rng
           /\ spawned' = c.spawned
           /\ ev' = RunEvent("tick", c.landed, ev.base,
                             IF dropped THEN ev.gone + 1 ELSE ev.gone)
    /\ ticks' = ticks + 1
    /\ dead_ticks' = IF state.game_over THEN dead_ticks + 1 ELSE dead_ticks
    /\ UNCHANGED <<space_down, cuts, held, resets>>

RunNext == RunPress \/ RunRelease \/ RunTick

SpecRun == RunInit /\ [][RunNext]_vars


-----------------------------------------------------------------------------
(* Properties of the score and of the gaps during a run, read on SpecRun *)

(* The obstacles of the sequence that are marked as scored *)
Scored(obstacles) == {i \in 1..Len(obstacles) : obstacles[i].scored}

(* C36: during a run the score never goes down and rises by at most 1 per
   frame; it changes only in a frame in which the player lands on an
   obstacle that was not marked as scored; and it always equals the number
   of obstacles of the run, queued or removed, that are marked as scored. *)
C36_ScoreCountsLandings ==
    [][/\ state'.score >= state.score
       /\ state'.score <= state.score + 1
       /\ state'.score # state.score =>
              /\ ev'.kind = "tick"
              /\ ev'.landed # 0
              /\ \E i \in 1..Len(state.obstacles) :
                     /\ state.obstacles[i].id = ev'.landed
                     /\ ~state.obstacles[i].scored
       /\ state.score = ev.base + ev.gone
                           + Cardinality(Scored(state.obstacles))
       /\ state'.score = ev'.base + ev'.gone
                            + Cardinality(Scored(state'.obstacles))]_vars

(* A landing that scored, after a scored obstacle has left the sequence
   and with another scored one still in it *)
C36_Witness ==
    /\ ev.kind = "tick"
    /\ ev.landed # 0
    /\ ev.gone >= 1
    /\ state.score >= ev.base + 3
    /\ Cardinality(Scored(state.obstacles)) >= 2

(* C39: each consecutive pair of obstacles in the sequence satisfies
   gap + MIN_OBSTACLE_WIDTH >= get_scroll_speed(score) * MIN_JUMP_FRAMES
   for the current score, whatever the score was when the later one was
   spawned. *)
C39_GapsFitCurrentSpeed ==
    \A i \in 1..(Len(state.obstacles) - 1) :
        state.obstacles[i + 1].x
            - (state.obstacles[i].x + state.obstacles[i].width * XS)
            + MIN_OBSTACLE_WIDTH * XS
          >= get_scroll_speed(state.score) * MIN_JUMP_FRAMES

(* A pair in the sequence whose gap is shorter than the shortest gap
   generate_obstacle draws at the current score: it was drawn at a lower
   one *)
C39_Witness ==
    /\ ev.kind = "tick"
    /\ ~state.game_over
    /\ \E i \in 1..(Len(state.obstacles) - 1) :
           state.obstacles[i + 1].x
               - (state.obstacles[i].x + state.obstacles[i].width * XS)
             < get_min_gap(get_scroll_speed(state.score)) * XS


=============================================================================
